---- MODULE Spec2Model ----
(***************************************************************************)
(* A model of the ticket store of app/tools.py: the append-only event log  *)
(* (storage/tickets.jsonl), the outbound-message log (outbox/emails.jsonl) *)
(* and the tools that read and append to them.  Text values are TLA+       *)
(* strings; the conversions the code applies to them (strip, lower, upper, *)
(* int, the 06d format) are computed character by character.               *)
(***************************************************************************)
EXTENDS Integers, Sequences, FiniteSets, TLC

VARIABLES
    tickets,    \* storage/tickets.jsonl: the sequence of lines appended so far
    outbox,     \* outbox/emails.jsonl: the sequence of lines appended so far
    clock,      \* the value time.time() returned at its latest call
    call,       \* the latest tool call: its name, its arguments, the log lengths before it
    ret,        \* the dict that call returned
    workers,    \* concurrent calls in flight (per-call locals)
    sweep,      \* the run_followup_once pass in progress (its locals)
    agents,     \* server.py's _agents: the agent registered for each session_id
    heap        \* agents build_agent() made, clear() calls on _agents, chat requests so far

vars == <<tickets, outbox, clock, call, ret, workers, sweep, agents, heap>>

-----------------------------------------------------------------------------
(* Bounds of the model *)

\* The tool calls of Spec append while the event log holds fewer lines.
MaxLog == 3

\* The same for SpecLifecycle (tickets opened and closed, nothing else).
MaxLifecycleLog == 4

\* The same for SpecRace (two overlapping upsert_ticket_tool calls).
MaxRaceLog == 2

\* SpecService (the tools and the follow-up pass) runs while the lines of the
\* event log and the follow-up passes that came a day after the latest call or
\* found a stale ticket are together fewer.
MaxService == 3

\* The same for SpecStored (the tools on a log written by earlier runs).
MaxStoredLog == 4
\* Lines of the event log when writes can fail.
MaxFaultyLog == 3
\* Lines of the event log, lines of the outbox and days gone by, together,
\* when whole follow-up passes run.
MaxSweep == 7
\* Days the scheduler runs for, counted from the first event of the log.
MaxSchedulerDays == 3
\* Lines of the event log when callers supply ticket ids of any form.
MaxIdLog == 3
\* Lines of the event log when the agent calls its registered tools.
MaxAgentLog == 3

\* time.time() between two calls either returns the same value again (a clock
\* of coarse resolution) or a later one.
Delays == {0, 1}

-----------------------------------------------------------------------------
(* Python values *)

\* The empty dict _agents starts as (server.py line 33).
NoAgents == [s \in {} |-> 0]

\* No agent built, no clear() of _agents and no chat request so far.
NoHeap == [built |-> 0, clears |-> 0, chats |-> 0]

\* Python's None where a string is expected (no input string equals it).
None == "<None>"

\* A dict is the set of its <<key, value>> items.
EmptyDict == {}

-----------------------------------------------------------------------------
(* str methods *)

Char(s, i) == SubSeq(s, i, i)

UpperChars == "ABCDEFGHIJKLMNOPQRSTUVWXYZ"
LowerChars == "abcdefghijklmnopqrstuvwxyz"
DigitChars == "0123456789"
Whitespace == {" ", "\t", "\n"}

\* The character tables, as functions from a character.
LowerOf == [c \in {Char(UpperChars, i) : i \in 1..26} |->
               Char(LowerChars, CHOOSE i \in 1..26 : Char(UpperChars, i) = c)]
UpperOf == [c \in {Char(LowerChars, i) : i \in 1..26} |->
               Char(UpperChars, CHOOSE i \in 1..26 : Char(LowerChars, i) = c)]
DigitOf == [c \in {Char(DigitChars, i) : i \in 1..10} |->
               (CHOOSE i \in 1..10 : Char(DigitChars, i) = c) - 1]

LowerChar(c) == IF c \in DOMAIN LowerOf THEN LowerOf[c] ELSE c

UpperChar(c) == IF c \in DOMAIN UpperOf THEN UpperOf[c] ELSE c

RECURSIVE StrLowerFrom(_, _)
StrLowerFrom(s, i) ==
    IF i > Len(s) THEN "" ELSE LowerChar(Char(s, i)) \o StrLowerFrom(s, i + 1)

StrLower(s) == StrLowerFrom(s, 1)

RECURSIVE StrUpperFrom(_, _)
StrUpperFrom(s, i) ==
    IF i > Len(s) THEN "" ELSE UpperChar(Char(s, i)) \o StrUpperFrom(s, i + 1)

StrUpper(s) == StrUpperFrom(s, 1)

\* The first index from i on that holds no whitespace (Len(s) + 1 if none).
RECURSIVE SkipLeft(_, _)
SkipLeft(s, i) ==
    IF i <= Len(s) /\ Char(s, i) \in Whitespace THEN SkipLeft(s, i + 1) ELSE i

\* The last index up to j that holds no whitespace (0 if none).
RECURSIVE SkipRight(_, _)
SkipRight(s, j) ==
    IF j >= 1 /\ Char(s, j) \in Whitespace THEN SkipRight(s, j - 1) ELSE j

StrStrip(s) == SubSeq(s, SkipLeft(s, 1), SkipRight(s, Len(s)))

StartsWith(s, prefix) ==
    Len(s) >= Len(prefix) /\ SubSeq(s, 1, Len(prefix)) = prefix

Contains(s, c) == \E i \in 1..Len(s) : Char(s, i) = c

\* The email strings the callers pass and the forms the tools store, each
\* with its str(user_id).strip().lower(), computed once.
EmailStrings ==
    {" A@X.com", "b@x.com", "z@x.com", " Z@x.com ", "a@x.com", "B@x.com "}
NormalizedOf == [s \in EmailStrings |-> StrLower(StrStrip(s))]

\* str(user_id).strip().lower()
NormalizeEmail(user_id) ==
    IF user_id \in EmailStrings THEN NormalizedOf[user_id] ELSE StrLower(StrStrip(user_id))

IsDigit(c) == c \in DOMAIN DigitOf

RECURSIVE DigitsValue(_, _, _)
DigitsValue(s, i, acc) ==
    IF i > Len(s) THEN acc ELSE DigitsValue(s, i + 1, 10 * acc + DigitOf[Char(s, i)])

\* int(s): surrounding whitespace is dropped, one sign is allowed, and the
\* rest must be a non-empty run of digits; anything else raises ValueError.
PyInt(s) ==
    LET t == StrStrip(s)
        signed == Len(t) > 0 /\ Char(t, 1) \in {"+", "-"}
        body == IF signed THEN SubSeq(t, 2, Len(t)) ELSE t
        wellFormed == Len(body) > 0 /\ \A i \in 1..Len(body) : IsDigit(Char(body, i))
    IN  IF ~wellFormed THEN [ok |-> FALSE, value |-> 0]
        ELSE [ok |-> TRUE,
              value |-> IF signed /\ Char(t, 1) = "-"
                        THEN 0 - DigitsValue(body, 1, 0)
                        ELSE DigitsValue(body, 1, 0)]

RECURSIVE Decimal(_)
Decimal(n) ==
    IF n < 10 THEN Char(DigitChars, n + 1)
    ELSE Decimal(n \div 10) \o Char(DigitChars, (n % 10) + 1)

RECURSIVE ZeroPad(_, _)
ZeroPad(s, width) == IF Len(s) >= width THEN s ELSE ZeroPad("0" \o s, width)

\* f"{n:06d}" for n >= 0
Format06d(n) == ZeroPad(Decimal(n), 6)

-----------------------------------------------------------------------------
(* Paths & helpers *)

SUPPORT_EMAIL == "support@tawasul31.com"

\* The keys of mock_data/users.json as written in the file.
UsersJson == {"a@x.com", "B@x.com "}

\* users: the keys normalized when the file is loaded
LoadDummyUsers == {StrLower(StrStrip(k)) : k \in UsersJson}

\* users.get(email, default): the profile stored under a key.
UsersGet(email, default) ==
    IF email \in LoadDummyUsers THEN [name |-> StrUpper(SubSeq(email, 1, 1))] ELSE default

\* What a line of the file holds when it is not a whole record: text that is
\* no JSON document, the start of a record whose write broke off before its
\* newline, or bytes that are no UTF-8 text.
Garbage == [type |-> "garbage"]
Torn == [type |-> "torn"]
Undecodable == [type |-> "undecodable"]

\* A write that opens the file with mode "w".
WriteJsonl(file, record) == <<record>>

\* open(path, "a") writes at the end of the file: after a line that has no
\* newline the record lands on that same line.
AppendJsonl(file, record) ==
    IF file # << >> /\ file[Len(file)].type = "torn"
    THEN [file EXCEPT ![Len(file)] = Garbage]
    ELSE Append(file, record)

\* The ways a write can end: the line is written, open() raises and nothing is
\* written, or write()/close() raises after part of the line reached the file.
WriteOutcomes == {"ok", "fails", "torn"}

\* The file after an append that raised.
FailedAppend(file, outcome) ==
    IF outcome = "fails" \/ (file # << >> /\ file[Len(file)].type = "torn") THEN file
    ELSE Append(file, Torn)

\* The exception that leaves a tool instead of its result.
Raise(exc) == [ok |-> FALSE, raised |-> exc]

-----------------------------------------------------------------------------
(* Core tools: email *)

SendEmailTool(out, now, subject, body, to, meta) ==
    Append(out, [ts |-> now, to |-> to, subject |-> subject, body |-> body, meta |-> meta])

-----------------------------------------------------------------------------
(* Ticketing helpers *)

\* json.loads accepts the line.
Parsable(line) == line.type \notin {"garbage", "torn"}

\* Every line of the file decodes as UTF-8.
Decodable(file) == \A i \in 1..Len(file) : file[i].type # "undecodable"

ReadTicketEvents(file) == SelectSeq(file, Parsable)

\* A scan that counts only the ids made of T- and exactly six digits.
RECURSIVE MaxNumLoopSixDigits(_, _, _)
MaxNumLoopSixDigits(events, i, max_num) ==
    IF i > Len(events) THEN max_num
    ELSE LET tid == events[i].ticket_id
             n == PyInt(SubSeq(tid, 3, Len(tid)))
             six == /\ Len(tid) = 8
                    /\ \A k \in 3..8 : IsDigit(Char(tid, k))
         IN  IF ~StartsWith(tid, "T-") \/ ~six
             THEN MaxNumLoopSixDigits(events, i + 1, max_num)
             ELSE IF n.value > max_num THEN MaxNumLoopSixDigits(events, i + 1, n.value)
             ELSE MaxNumLoopSixDigits(events, i + 1, max_num)

RECURSIVE MaxNumLoop(_, _, _)
MaxNumLoop(events, i, max_num) ==
    IF i > Len(events) THEN max_num
    ELSE LET tid == events[i].ticket_id
             n == PyInt(SubSeq(tid, 3, Len(tid)))
         IN  IF ~StartsWith(tid, "T-") THEN MaxNumLoop(events, i + 1, max_num)
             ELSE IF ~n.ok THEN MaxNumLoop(events, i + 1, max_num)
             ELSE IF n.value > max_num THEN MaxNumLoop(events, i + 1, n.value)
             ELSE MaxNumLoop(events, i + 1, max_num)

\* A generator that numbers a ticket by the count of the events read.
GenerateTicketIdByCount(file) ==
    "T-" \o Format06d(Len(ReadTicketEvents(file)) + 1)

GenerateTicketId(file) == "T-" \o Format06d(MaxNumLoop(ReadTicketEvents(file), 1, 0) + 1)

-----------------------------------------------------------------------------
(* Ticketing & routing *)

Terminal == {"resolved", "closed"}

EscalationSubject(urgency, ticket_id, email) ==
    "[AgentX] " \o StrUpper(urgency) \o " ticket " \o ticket_id \o " for " \o email

EscalationBody(ticket_id, email, topic, urgency, emotion, message) ==
    "Ticket ID: " \o ticket_id \o "\n" \o "User: " \o email \o "\n"
    \o "Topic: " \o topic \o "\n" \o "Urgency: " \o urgency \o "\n"
    \o "Emotion: " \o emotion \o "\n" \o "\n" \o "Latest message:" \o "\n" \o message

\* The record upsert_ticket_tool builds for ticket_id (generated or supplied).
UpsertRecord(a, email, ticket_id, is_new, now) ==
    [schema |-> 1, type |-> "ticket_event", ts |-> now, ticket_id |-> ticket_id,
     user_id |-> email, message |-> a.message, topic |-> a.topic,
     urgency |-> a.urgency, department |-> a.department, status |-> a.status,
     emotion |-> a.emotion, meta |-> EmptyDict,
     event |-> IF is_new THEN "created" ELSE "updated"]

\* An escalation test that looks at the urgency alone.
ShouldEscalateAnyStatus(urgency, status) ==
    urgency \in {"high", "critical"}

ShouldEscalate(urgency, status) ==
    urgency \in {"high", "critical"} /\ status \notin Terminal

\* The auto-escalation of upsert_ticket_tool: the outbox after it.
AutoEscalate(out, a, email, ticket_id, is_new, now) ==
    IF ShouldEscalate(a.urgency, a.status)
    THEN SendEmailTool(out, now,
             EscalationSubject(a.urgency, ticket_id, email),
             EscalationBody(ticket_id, email, a.topic, a.urgency, a.emotion, a.message),
             SUPPORT_EMAIL,
             {<<"auto_escalated", TRUE>>, <<"source", "upsert_ticket_tool">>,
              <<"operation", IF is_new THEN "created" ELSE "updated">>})
    ELSE out

UpsertResult(a, email, ticket_id, is_new) ==
    [ok |-> TRUE, ticket_id |-> ticket_id,
     operation |-> IF is_new THEN "created" ELSE "updated",
     topic |-> a.topic, urgency |-> a.urgency, department |-> a.department,
     status |-> a.status, emotion |-> a.emotion, user_email |-> email]

UnknownUserUpsert ==
    [ok |-> FALSE, reason |-> "unknown_user", message |-> "User email not found in demo data."]

\* An upsert without the lookup in users.json.
UpsertTicketToolUnchecked(file, out, now, a) ==
    LET email == NormalizeEmail(a.user_id)
        is_new == a.ticket_id = None
        ticket_id == IF is_new THEN GenerateTicketId(file) ELSE a.ticket_id
    IN  [tickets |-> AppendJsonl(file, UpsertRecord(a, email, ticket_id, is_new, now)),
         outbox |-> AutoEscalate(out, a, email, ticket_id, is_new, now),
         ret |-> UpsertResult(a, email, ticket_id, is_new)]

\* An upsert that validates the user only when it opens a ticket.
UpsertTicketToolUncheckedUpdate(file, out, now, a) ==
    LET email == NormalizeEmail(a.user_id)
        is_new == a.ticket_id = None
        ticket_id == IF is_new THEN GenerateTicketId(file) ELSE a.ticket_id
    IN  IF is_new /\ email \notin LoadDummyUsers
        THEN [tickets |-> file, outbox |-> out, ret |-> UnknownUserUpsert]
        ELSE [tickets |-> AppendJsonl(file, UpsertRecord(a, email, ticket_id, is_new, now)),
              outbox |-> AutoEscalate(out, a, email, ticket_id, is_new, now),
              ret |-> UpsertResult(a, email, ticket_id, is_new)]

\* upsert_ticket_tool(**a) run without interruption on the two files at time
\* now: the files after it and the dict it returns.
UpsertTicketTool(file, out, now, a) ==
    LET email == NormalizeEmail(a.user_id)
        is_new == a.ticket_id = None
        ticket_id == IF is_new THEN GenerateTicketId(file) ELSE a.ticket_id
    IN  IF email \notin LoadDummyUsers
        THEN [tickets |-> file, outbox |-> out, ret |-> UnknownUserUpsert]
        ELSE [tickets |-> AppendJsonl(file, UpsertRecord(a, email, ticket_id, is_new, now)),
              outbox |-> AutoEscalate(out, a, email, ticket_id, is_new, now),
              ret |-> UpsertResult(a, email, ticket_id, is_new)]

-----------------------------------------------------------------------------
(* get_user_profile_tool *)

\* The filter of the revision that closed the latest open ticket of anyone.
EventsOfAnyUser(events, email) == events

EventsOfUser(events, email) ==
    SelectSeq(events, LAMBDA e : NormalizeEmail(e.user_id) = email)

\* The loop keeping, for each ticket, the event that comes last in the log.
RECURSIVE LatestByTicketLoopLastWins(_, _, _)
LatestByTicketLoopLastWins(events, i, latest) ==
    IF i > Len(events) THEN latest
    ELSE LatestByTicketLoopLastWins(events, i + 1,
             [t \in DOMAIN latest \cup {events[i].ticket_id} |->
                 IF t = events[i].ticket_id THEN events[i] ELSE latest[t]])

\* The loop "track latest status per ticket_id": latest is the dict built so
\* far, as a function from the ticket ids seen to their kept events.
RECURSIVE LatestByTicketLoop(_, _, _)
LatestByTicketLoop(events, i, latest) ==
    IF i > Len(events) THEN latest
    ELSE LET e == events[i]
             tid == e.ticket_id
         IN  IF tid \notin DOMAIN latest
             THEN LatestByTicketLoop(events, i + 1,
                      [t \in DOMAIN latest \cup {tid} |-> IF t = tid THEN e ELSE latest[t]])
             ELSE IF e.ts > latest[tid].ts
             THEN LatestByTicketLoop(events, i + 1, [latest EXCEPT ![tid] = e])
             ELSE LatestByTicketLoop(events, i + 1, latest)

LatestByTicket(events) == LatestByTicketLoop(events, 1, [t \in {} |-> 0])

RECURSIVE MaxTsLoop(_, _, _)
MaxTsLoop(events, i, best) ==
    IF i > Len(events) THEN best
    ELSE MaxTsLoop(events, i + 1, IF events[i].ts > best THEN events[i].ts ELSE best)

\* A profile that summarizes the events before it looks the user up.
GetUserProfileToolCountsFirst(file, user_id) ==
    LET email == NormalizeEmail(user_id)
        profile == UsersGet(email, None)
        user_events == EventsOfUser(ReadTicketEvents(file), email)
        latest_by_ticket == LatestByTicket(user_events)
        total_tickets == Cardinality(DOMAIN latest_by_ticket)
        open_tickets ==
            Cardinality({t \in DOMAIN latest_by_ticket : latest_by_ticket[t].status \notin Terminal})
    IN  IF Len(user_events) = 0
        THEN [ok |-> email \in LoadDummyUsers,
              reason |-> IF email \in LoadDummyUsers THEN None ELSE "unknown_user",
              user_id |-> email,
              known_user |-> email \in LoadDummyUsers, is_new_user |-> TRUE,
              has_open_tickets |-> FALSE,
              total_tickets |-> 0, open_tickets |-> 0, last_ticket_ts |-> None,
              profile |-> profile]
        ELSE [ok |-> email \in LoadDummyUsers,
              reason |-> IF email \in LoadDummyUsers THEN None ELSE "unknown_user",
              user_id |-> email,
              known_user |-> email \in LoadDummyUsers, is_new_user |-> total_tickets = 0,
              has_open_tickets |-> open_tickets > 0,
              total_tickets |-> total_tickets, open_tickets |-> open_tickets,
              last_ticket_ts |-> MaxTsLoop(user_events, 2, user_events[1].ts),
              profile |-> profile]

GetUserProfileTool(file, user_id) ==
    LET email == NormalizeEmail(user_id)
        profile == UsersGet(email, None)
        user_events == EventsOfUser(ReadTicketEvents(file), email)
        latest_by_ticket == LatestByTicket(user_events)
        total_tickets == Cardinality(DOMAIN latest_by_ticket)
        open_tickets ==
            Cardinality({t \in DOMAIN latest_by_ticket : latest_by_ticket[t].status \notin Terminal})
    IN  IF email \notin LoadDummyUsers
        THEN [ok |-> FALSE, reason |-> "unknown_user",
              message |-> "Email not found in user data database.", user_id |-> email,
              known_user |-> FALSE, is_new_user |-> TRUE, has_open_tickets |-> FALSE,
              total_tickets |-> 0, open_tickets |-> 0, last_ticket_ts |-> None,
              profile |-> None]
        ELSE IF Len(user_events) = 0
        THEN [ok |-> TRUE, reason |-> None, user_id |-> email,
              known_user |-> TRUE, is_new_user |-> TRUE, has_open_tickets |-> FALSE,
              total_tickets |-> 0, open_tickets |-> 0, last_ticket_ts |-> None,
              profile |-> profile]
        ELSE [ok |-> TRUE, reason |-> None, user_id |-> email,
              known_user |-> TRUE, is_new_user |-> total_tickets = 0,
              has_open_tickets |-> open_tickets > 0,
              total_tickets |-> total_tickets, open_tickets |-> open_tickets,
              last_ticket_ts |-> MaxTsLoop(user_events, 2, user_events[1].ts),
              profile |-> profile]

-----------------------------------------------------------------------------
(* Deterministic ticket closing helper *)

\* The loop that keeps the latest non-resolved record of the user: best is
\* << >> for None, or <<rec>>.
RECURSIVE LastOpenRecordLoop(_, _, _)
LastOpenRecordLoop(user_events, i, best) ==
    IF i > Len(user_events) THEN best
    ELSE LET rec == user_events[i]
         IN  IF rec.status \in Terminal THEN LastOpenRecordLoop(user_events, i + 1, best)
             ELSE IF best = << >> \/ rec.ts > best[1].ts
             THEN LastOpenRecordLoop(user_events, i + 1, <<rec>>)
             ELSE LastOpenRecordLoop(user_events, i + 1, best)

LastOpenRecord(user_events) == LastOpenRecordLoop(user_events, 1, << >>)

DictSet(d, k, v) == {p \in d : p[1] # k} \cup {<<k, v>>}

\* A closing record that falls back to the defaults of a missing field.
ClosingRecordDefaults(last_open_record, email, now) ==
    [schema |-> 1, type |-> "ticket_event", ts |-> now,
     ticket_id |-> last_open_record.ticket_id, user_id |-> email,
     message |-> "Ticket closed by close_last_open_ticket_tool.",
     topic |-> last_open_record.topic, urgency |-> "low",
     department |-> last_open_record.department, status |-> "resolved",
     emotion |-> "neutral",
     meta |-> DictSet(last_open_record.meta, "auto_closed", TRUE),
     event |-> "updated"]

\* The record close_last_open_ticket_tool builds from last_open_record.
ClosingRecord(last_open_record, email, now) ==
    [schema |-> 1, type |-> "ticket_event", ts |-> now,
     ticket_id |-> last_open_record.ticket_id, user_id |-> email,
     message |-> "Ticket closed by close_last_open_ticket_tool.",
     topic |-> last_open_record.topic, urgency |-> last_open_record.urgency,
     department |-> last_open_record.department, status |-> "resolved",
     emotion |-> last_open_record.emotion,
     meta |-> DictSet(last_open_record.meta, "auto_closed", TRUE),
     event |-> "updated"]

CloseFailure(reason, message, email) ==
    [ok |-> FALSE, reason |-> reason, message |-> message, user_id |-> email]

\* A close that looks the user up only when the log has no event of theirs.
CloseLastOpenTicketToolLateCheck(file, now, user_id) ==
    LET email == NormalizeEmail(user_id)
        events == ReadTicketEvents(file)
        user_events == EventsOfUser(events, email)
        last_open_record == LastOpenRecord(user_events)
    IN  IF Len(user_events) = 0 /\ email \notin LoadDummyUsers
        THEN [tickets |-> file,
              ret |-> CloseFailure("unknown_user", "User email not found in demo data.", email)]
        ELSE IF Len(events) = 0
        THEN [tickets |-> file,
              ret |-> CloseFailure("no_tickets_file", "No tickets file found.", email)]
        ELSE IF Len(user_events) = 0
        THEN [tickets |-> file,
              ret |-> CloseFailure("no_tickets_for_user", "No tickets found for this user.", email)]
        ELSE IF last_open_record = << >>
        THEN [tickets |-> file,
              ret |-> CloseFailure("no_open_ticket", "No open tickets found for this user.", email)]
        ELSE [tickets |-> AppendJsonl(file, ClosingRecord(last_open_record[1], email, now)),
              ret |-> [ok |-> TRUE, ticket_id |-> last_open_record[1].ticket_id,
                       status |-> "resolved", closed_ts |-> now, user_id |-> email]]

\* A close without the test for a user who has no events.
CloseLastOpenTicketToolNoEmptyTest(file, now, user_id) ==
    LET email == NormalizeEmail(user_id)
        events == ReadTicketEvents(file)
        user_events == EventsOfUser(events, email)
        last_open_record == LastOpenRecord(user_events)
    IN  IF email \notin LoadDummyUsers
        THEN [tickets |-> file,
              ret |-> CloseFailure("unknown_user", "User email not found in demo data.", email)]
        ELSE IF Len(events) = 0
        THEN [tickets |-> file,
              ret |-> CloseFailure("no_tickets_file", "No tickets file found.", email)]
        ELSE IF last_open_record = << >>
        THEN [tickets |-> file,
              ret |-> CloseFailure("no_open_ticket", "No open tickets found for this user.", email)]
        ELSE [tickets |-> AppendJsonl(file, ClosingRecord(last_open_record[1], email, now)),
              ret |-> [ok |-> TRUE, ticket_id |-> last_open_record[1].ticket_id,
                       status |-> "resolved", closed_ts |-> now, user_id |-> email]]

\* close_last_open_ticket_tool(user_id) run without interruption at time now:
\* the event log after it and the dict it returns.
CloseLastOpenTicketTool(file, now, user_id) ==
    LET email == NormalizeEmail(user_id)
        events == ReadTicketEvents(file)
        user_events == EventsOfUser(events, email)
        last_open_record == LastOpenRecord(user_events)
    IN  IF email \notin LoadDummyUsers
        THEN [tickets |-> file,
              ret |-> CloseFailure("unknown_user", "User email not found in demo data.", email)]
        ELSE IF Len(events) = 0
        THEN [tickets |-> file,
              ret |-> CloseFailure("no_tickets_file", "No tickets file found.", email)]
        ELSE IF Len(user_events) = 0
        THEN [tickets |-> file,
              ret |-> CloseFailure("no_tickets_for_user", "No tickets found for this user.", email)]
        ELSE IF last_open_record = << >>
        THEN [tickets |-> file,
              ret |-> CloseFailure("no_open_ticket", "No open tickets found for this user.", email)]
        ELSE [tickets |-> AppendJsonl(file, ClosingRecord(last_open_record[1], email, now)),
              ret |-> [ok |-> TRUE, ticket_id |-> last_open_record[1].ticket_id,
                       status |-> "resolved", closed_ts |-> now, user_id |-> email]]

-----------------------------------------------------------------------------
(* app/followup_worker.py *)

\* How old (seconds since its last event) a ticket must be to get a follow-up.
THRESHOLD_SECONDS == 24 * 60 * 60

\* A list with one entry for every event, where a dict has one for every key.
RECURSIVE TicketOrderLoopEveryEvent(_, _, _)
TicketOrderLoopEveryEvent(events, i, order) ==
    IF i > Len(events) THEN order
    ELSE TicketOrderLoopEveryEvent(events, i + 1, Append(order, events[i].ticket_id))

\* The keys of latest_by_ticket in the order a dict keeps them: the order in
\* which the ticket ids first occur.
RECURSIVE TicketOrderLoop(_, _, _)
TicketOrderLoop(events, i, order) ==
    IF i > Len(events) THEN order
    ELSE IF \E k \in DOMAIN order : order[k] = events[i].ticket_id
    THEN TicketOrderLoop(events, i + 1, order)
    ELSE TicketOrderLoop(events, i + 1, Append(order, events[i].ticket_id))

\* rec["user_profile"] = users.get(email, {})
WithUserProfile(rec) ==
    [rec |-> rec, user_profile |-> UsersGet(NormalizeEmail(rec.user_id), EmptyDict)]

\* A selection that takes a ticket for open when any of its events is open.
GetOpenTicketsByUserAnyEvent(file) ==
    LET events == SelectSeq(ReadTicketEvents(file), LAMBDA e : e.status \notin Terminal)
        latest_by_ticket == LatestByTicket(events)
        order == TicketOrderLoop(events, 1, << >>)
    IN  [k \in DOMAIN order |-> WithUserProfile(latest_by_ticket[order[k]])]

\* _get_open_tickets_by_user(): the latest event of each ticket over the
\* whole log, the open ones, each with its user's profile.
GetOpenTicketsByUser(file) ==
    LET events == ReadTicketEvents(file)
        latest_by_ticket == LatestByTicket(events)
        order == TicketOrderLoop(events, 1, << >>)
        values == [k \in DOMAIN order |-> latest_by_ticket[order[k]]]
        open_tickets == SelectSeq(values, LAMBDA rec : rec.status \notin Terminal)
    IN  [k \in DOMAIN open_tickets |-> WithUserProfile(open_tickets[k])]

\* A filter that wants a ticket older than the threshold.
FilterStaleTicketsStrict(open_tickets, now) ==
    SelectSeq(open_tickets, LAMBDA t : now - t.rec.ts > THRESHOLD_SECONDS)

\* _filter_stale_tickets(tickets, now)
FilterStaleTickets(open_tickets, now) ==
    SelectSeq(open_tickets, LAMBDA t : now - t.rec.ts >= THRESHOLD_SECONDS)

\* What the language model drafts for a ticket.
FollowupBody == "Is your issue resolved, or do you still need help?"

FollowupSubject(ticket_id) == "Checking in about your ticket " \o ticket_id

\* The body of the loop of run_followup_once for one stale ticket: the outbox
\* after it.  drafted is FALSE when the draft or the append raised.
FollowupOne(out, now, ticket, drafted) ==
    LET user_email == NormalizeEmail(ticket.rec.user_id)
    IN  IF user_email = "" \/ ~Contains(user_email, "@") THEN out
        ELSE IF ~drafted THEN out
        ELSE SendEmailTool(out, now, FollowupSubject(ticket.rec.ticket_id), FollowupBody,
                 user_email,
                 {<<"source", "followup_worker">>, <<"ticket_id", ticket.rec.ticket_id>>,
                  <<"reason", "stale_open_ticket">>})

\* A loop that gives up at the first ticket whose draft or append raises.
RECURSIVE FollowupLoopAborting(_, _, _, _, _)
FollowupLoopAborting(out, now, stale_tickets, i, failing) ==
    IF i > Len(stale_tickets) THEN out
    ELSE IF stale_tickets[i].rec.ticket_id \in failing THEN out
    ELSE FollowupLoopAborting(FollowupOne(out, now, stale_tickets[i], TRUE),
                              now, stale_tickets, i + 1, failing)

\* for ticket in stale_tickets: the outbox after the loop.  failing holds the
\* ticket ids whose draft or append raises.
RECURSIVE FollowupLoop(_, _, _, _, _)
FollowupLoop(out, now, stale_tickets, i, failing) ==
    IF i > Len(stale_tickets) THEN out
    ELSE FollowupLoop(FollowupOne(out, now, stale_tickets[i],
                                  stale_tickets[i].rec.ticket_id \notin failing),
                      now, stale_tickets, i + 1, failing)

\* run_followup_once() as one step: the outbox after the pass.
RunFollowupOnce(file, out, now, failing) ==
    FollowupLoop(out, now, FilterStaleTickets(GetOpenTicketsByUser(file), now), 1, failing)

-----------------------------------------------------------------------------
(* The tools when a write fails or the log holds a damaged line *)

\* How the two files take the next write.
Disks == [tickets : WriteOutcomes, outbox : {"ok", "fails"}]

Healthy == [tickets |-> "ok", outbox |-> "ok"]

\* upsert_ticket_tool that reports success whether or not the event was written.
UpsertTicketToolSwallowing(file, out, now, a, disk) ==
    LET email == NormalizeEmail(a.user_id)
        is_new == a.ticket_id = None
    IN  IF email \notin LoadDummyUsers THEN UpsertTicketTool(file, out, now, a)
        ELSE IF is_new /\ ~Decodable(file)
        THEN [tickets |-> file, outbox |-> out, ret |-> Raise("UnicodeDecodeError")]
        ELSE LET r == UpsertTicketTool(file, out, now, a)
             IN  IF disk.tickets # "ok"
                 THEN [r EXCEPT !.tickets = FailedAppend(file, disk.tickets)]
                 ELSE IF r.outbox # out /\ disk.outbox # "ok"
                 THEN [tickets |-> r.tickets, outbox |-> out, ret |-> Raise("OSError")]
                 ELSE r

\* upsert_ticket_tool: the user check, the read of the log for a new id, the
\* append of the event, the escalation mail, the result.  Nothing catches
\* what a read or a write raises.
UpsertTicketToolOn(file, out, now, a, disk) ==
    LET email == NormalizeEmail(a.user_id)
        is_new == a.ticket_id = None
    IN  IF email \notin LoadDummyUsers THEN UpsertTicketTool(file, out, now, a)
        ELSE IF is_new /\ ~Decodable(file)
        THEN [tickets |-> file, outbox |-> out, ret |-> Raise("UnicodeDecodeError")]
        ELSE IF disk.tickets # "ok"
        THEN [tickets |-> FailedAppend(file, disk.tickets), outbox |-> out,
              ret |-> Raise("OSError")]
        ELSE LET r == UpsertTicketTool(file, out, now, a)
             IN  IF r.outbox # out /\ disk.outbox # "ok"
                 THEN [tickets |-> r.tickets, outbox |-> out, ret |-> Raise("OSError")]
                 ELSE r

\* close_last_open_ticket_tool: the user check, the read, the append.
CloseLastOpenTicketToolOn(file, now, user_id, disk) ==
    IF NormalizeEmail(user_id) \notin LoadDummyUsers
    THEN CloseLastOpenTicketTool(file, now, user_id)
    ELSE IF ~Decodable(file) THEN [tickets |-> file, ret |-> Raise("UnicodeDecodeError")]
    ELSE LET r == CloseLastOpenTicketTool(file, now, user_id)
         IN  IF r.ret.ok /\ disk.tickets # "ok"
             THEN [tickets |-> FailedAppend(file, disk.tickets), ret |-> Raise("OSError")]
             ELSE r

\* get_user_profile_tool: the log is read before the user is looked at.
GetUserProfileToolOn(file, user_id) ==
    IF ~Decodable(file) THEN Raise("UnicodeDecodeError")
    ELSE GetUserProfileTool(file, user_id)

\* run_followup_once: the read of the log is outside the loop's handler.
RunFollowupOnceOn(file, out, now, failing) ==
    IF ~Decodable(file) THEN [outbox |-> out, ret |-> Raise("UnicodeDecodeError")]
    ELSE [outbox |-> RunFollowupOnce(file, out, now, failing), ret |-> [ok |-> TRUE]]

-----------------------------------------------------------------------------
(* The callers' inputs *)

\* Classifications the policy driver attaches to a message.
Angry == [topic |-> "refund", department |-> "billing", emotion |-> "angry"]
Calm == [topic |-> "technical_issue", department |-> "technical", emotion |-> "neutral"]

TicketArgs(user_id, ticket_id, urgency, status, c) ==
    [user_id |-> user_id, message |-> "help", topic |-> c.topic, urgency |-> urgency,
     department |-> c.department, status |-> status, ticket_id |-> ticket_id,
     emotion |-> c.emotion]

\* manage_ticket calls that open a ticket.
Creates ==
    { TicketArgs(" A@X.com", None, "high", "open", Angry),
      TicketArgs("b@x.com", None, "low", "pending", Calm) }

\* manage_ticket calls that pass a ticket_id.
Updates ==
    { TicketArgs("b@x.com", "T-000001", "critical", "resolved", Calm),
      TicketArgs(" A@X.com", "T-000050", "critical", "escalated", Angry),
      TicketArgs(" A@X.com", "T-000002", "high", "closed", Calm) }

\* manage_ticket calls for an email that is not in users.json.
Strangers ==
    { TicketArgs("z@x.com", None, "critical", "open", Angry),
      TicketArgs(" Z@x.com ", "T-000001", "high", "open", Calm) }

Requests == Creates \cup Updates \cup Strangers

\* The emails close_last_open_ticket_tool is called with.
UserIds == {" A@X.com", "b@x.com", "z@x.com"}

Workers == {1, 2}

-----------------------------------------------------------------------------
(* Tool calls that run one after the other *)

Idle == [pc |-> "idle"]

Init ==
    /\ tickets = << >>
    /\ outbox = << >>
    /\ clock = 0
    /\ call = [op |-> "none"]
    /\ ret = [ok |-> TRUE]
    /\ workers = [w \in Workers |-> Idle]
    /\ agents = NoAgents
    /\ heap = NoHeap
    /\ sweep = [pc |-> "idle", runs |-> 0]

\* One upsert_ticket_tool call, d after the latest append; cap bounds the log.
Upsert(a, d, cap) ==
    LET now == clock + d
    IN  \E r \in {UpsertTicketTool(tickets, outbox, now, a)} :
        /\ r.tickets = tickets \/ Len(tickets) < cap
        /\ tickets' = r.tickets
        /\ outbox' = r.outbox
        /\ clock' = IF r.tickets = tickets THEN clock ELSE now
        /\ call' = [op |-> "upsert", args |-> a, nT |-> Len(tickets), nO |-> Len(outbox)]
        /\ ret' = r.ret
        /\ UNCHANGED <<workers, sweep, agents, heap>>

\* A close that also mails the support desk about the ticket it resolved.
CloseEscalating(user_id, d, cap) ==
    LET now == clock + d
    IN  \E r \in {CloseLastOpenTicketTool(tickets, now, user_id)} :
        /\ r.tickets = tickets \/ Len(tickets) < cap
        /\ tickets' = r.tickets
        /\ outbox' = IF r.ret.ok
                     THEN SendEmailTool(outbox, now, "Ticket resolved", r.ret.ticket_id,
                                        SUPPORT_EMAIL, EmptyDict)
                     ELSE outbox
        /\ clock' = IF r.tickets = tickets THEN clock ELSE now
        /\ call' = [op |-> "close", user_id |-> user_id,
                    nT |-> Len(tickets), nO |-> Len(outbox)]
        /\ ret' = r.ret
        /\ UNCHANGED <<workers, sweep, agents, heap>>

\* One close_last_open_ticket_tool call, d after the latest append.
Close(user_id, d, cap) ==
    LET now == clock + d
    IN  \E r \in {CloseLastOpenTicketTool(tickets, now, user_id)} :
        /\ r.tickets = tickets \/ Len(tickets) < cap
        /\ tickets' = r.tickets
        /\ clock' = IF r.tickets = tickets THEN clock ELSE now
        /\ call' = [op |-> "close", user_id |-> user_id,
                    nT |-> Len(tickets), nO |-> Len(outbox)]
        /\ ret' = r.ret
        /\ UNCHANGED <<outbox, workers, sweep, agents, heap>>

Next ==
    \/ \E a \in Requests, d \in Delays : Upsert(a, d, MaxLog)
    \/ \E u \in UserIds, d \in Delays : Close(u, d, MaxLog)

Spec == Init /\ [][Next]_vars

\* Customers who only open tickets and close them.
NextLifecycle ==
    \/ \E a \in Creates, d \in Delays : Upsert(a, d, MaxLifecycleLog)
    \/ \E u \in UserIds, d \in Delays : Close(u, d, MaxLifecycleLog)

SpecLifecycle == Init /\ [][NextLifecycle]_vars

-----------------------------------------------------------------------------
(* The tools together with the follow-up pass *)

\* A profile lookup that stamps its result with the time of the lookup.
ProfileStamped(user_id) ==
    /\ call' = [op |-> "profile", user_id |-> user_id,
                nT |-> Len(tickets), nO |-> Len(outbox)]
    /\ ret' = ("checked_ts" :> clock) @@ GetUserProfileTool(tickets, user_id)
    /\ UNCHANGED <<tickets, outbox, clock, workers, sweep, agents, heap>>

\* One get_user_profile_tool call.
Profile(user_id) ==
    /\ call' = [op |-> "profile", user_id |-> user_id,
                nT |-> Len(tickets), nO |-> Len(outbox)]
    /\ ret' = GetUserProfileTool(tickets, user_id)
    /\ UNCHANGED <<tickets, outbox, clock, workers, sweep, agents, heap>>

\* The scheduler runs the pass right away or a day later.
SweepDelays == {0, THRESHOLD_SECONDS}

\* run_followup_once up to its loop: now, the open tickets, the stale ones.
\* cap bounds the passes that come a day later or find a stale ticket.
FollowupBegin(d, cap) ==
    LET now == clock + d
        stale_tickets == FilterStaleTickets(GetOpenTicketsByUser(tickets), now)
    IN  /\ sweep.pc = "idle"
        /\ sweep.runs < cap
        /\ clock' = now
        /\ sweep' = IF stale_tickets = << >>
                    THEN [pc |-> "idle", runs |-> sweep.runs + (IF d = 0 THEN 0 ELSE 1)]
                    ELSE [pc |-> "sending", runs |-> sweep.runs + 1,
                          now |-> now, todo |-> stale_tickets]
        /\ UNCHANGED <<tickets, outbox, call, ret, workers, agents, heap>>

\* One turn of the loop of run_followup_once; drafted is FALSE when the
\* language model or the append raises, which the loop catches.
FollowupSend(drafted) ==
    /\ sweep.pc = "sending"
    /\ outbox' = FollowupOne(outbox, clock, Head(sweep.todo), drafted)
    /\ sweep' = IF Len(sweep.todo) = 1 THEN [pc |-> "idle", runs |-> sweep.runs]
                ELSE [sweep EXCEPT !.todo = Tail(sweep.todo)]
    /\ UNCHANGED <<tickets, clock, call, ret, workers, agents, heap>>

\* A manage_ticket call whose classification is outside the documented values.
Unclassified ==
    TicketArgs(" A@X.com", None, "urgent", "in_progress",
               [topic |-> "complaint", department |-> "finance", emotion |-> "furious"])

ServiceRequests ==
    Creates \cup {TicketArgs("z@x.com", None, "critical", "open", Angry), Unclassified}

NextService ==
    \/ \E a \in ServiceRequests : Upsert(a, 1, MaxService - sweep.runs)
    \/ \E u \in UserIds : Close(u, 1, MaxService - sweep.runs)
    \/ \E u \in UserIds : Profile(u)
    \/ \E d \in SweepDelays : FollowupBegin(d, MaxService - Len(tickets))
    \/ \E drafted \in BOOLEAN : FollowupSend(drafted)

SpecService == Init /\ [][NextService]_vars

-----------------------------------------------------------------------------
(* The tools on a log that earlier runs of the program wrote *)

\* An event as upsert_ticket_tool wrote it at time ts.
StoredEvent(user_id, ticket_id, is_new, status, ts) ==
    UpsertRecord(TicketArgs(user_id, IF is_new THEN None ELSE ticket_id, "high", status, Angry),
                 NormalizeEmail(user_id), ticket_id, is_new, ts)

\* Logs found at start-up: none; the ticket of a user since removed from
\* users.json; the same next to a ticket of a present user; a ticket whose
\* two overlapping updates were appended in the reverse order of their ts.
StoredLogs ==
    { << >>,
      << StoredEvent("z@x.com", "T-000001", TRUE, "open", 0) >>,
      << StoredEvent("a@x.com", "T-000001", TRUE, "open", 0),
         StoredEvent("z@x.com", "T-000002", TRUE, "open", 1) >>,
      << StoredEvent("a@x.com", "T-000001", TRUE, "open", 0),
         StoredEvent("a@x.com", "T-000001", FALSE, "resolved", 2),
         StoredEvent("a@x.com", "T-000001", FALSE, "escalated", 1) >> }

InitStored ==
    /\ tickets \in StoredLogs
    /\ outbox = << >>
    /\ clock = MaxTsLoop(tickets, 1, 0)
    /\ call = [op |-> "none"]
    /\ ret = [ok |-> TRUE]
    /\ workers = [w \in Workers |-> Idle]
    /\ agents = NoAgents
    /\ heap = NoHeap
    /\ sweep = [pc |-> "idle", runs |-> 0]

NextStored ==
    \/ \E a \in Creates \cup Strangers, d \in Delays : Upsert(a, d, MaxStoredLog)
    \/ \E u \in UserIds, d \in Delays : Close(u, d, MaxStoredLog)
    \/ \E u \in UserIds : Profile(u)

SpecStored == InitStored /\ [][NextStored]_vars

-----------------------------------------------------------------------------
(* Two upsert_ticket_tool calls that overlap: each call is a worker that     *)
(* takes the function's steps one at a time, with its locals in workers[w]. *)

\* The calls that overlap: for known users, with and without a ticket_id.
RaceRequests ==
    Creates \cup {TicketArgs("b@x.com", "T-000001", "critical", "resolved", Calm)}

\* Calls that hold a place in the log they have not appended to yet.
InFlight == {w \in Workers : workers[w].pc \in {"generate", "append"}}

\* now = time.time(), the user check, is_new.
UpsertBegin(w, a, d) ==
    /\ workers[w].pc \in {"idle", "done"}
    /\ Len(tickets) + Cardinality(InFlight) < MaxRaceLog
    /\ NormalizeEmail(a.user_id) \in LoadDummyUsers
    /\ clock' = clock + d
    /\ workers' = [workers EXCEPT ![w] =
           [pc |-> IF a.ticket_id = None THEN "generate" ELSE "append",
            args |-> a, now |-> clock + d, email |-> NormalizeEmail(a.user_id),
            is_new |-> a.ticket_id = None, ticket_id |-> a.ticket_id, seen |-> -1]]
    /\ UNCHANGED <<tickets, outbox, call, ret, sweep, agents, heap>>

\* A generation that waits while another call holds an id it has not appended.
UpsertGenerateLocked(w) ==
    /\ workers[w].pc = "generate"
    /\ \A v \in Workers : workers[v].pc # "append"
    /\ workers' = [workers EXCEPT ![w].pc = "append",
                                  ![w].ticket_id = GenerateTicketId(tickets),
                                  ![w].seen = Len(tickets)]
    /\ UNCHANGED <<tickets, outbox, clock, call, ret, sweep, agents, heap>>

\* ticket_id = _generate_ticket_id(): one read of the whole log.
UpsertGenerate(w) ==
    /\ workers[w].pc = "generate"
    /\ workers' = [workers EXCEPT ![w].pc = "append",
                                  ![w].ticket_id = GenerateTicketId(tickets),
                                  ![w].seen = Len(tickets)]
    /\ UNCHANGED <<tickets, outbox, clock, call, ret, sweep, agents, heap>>

\* _append_jsonl(TICKETS_PATH, record)
UpsertAppend(w) ==
    /\ workers[w].pc = "append"
    /\ tickets' = AppendJsonl(tickets,
           UpsertRecord(workers[w].args, workers[w].email, workers[w].ticket_id,
                        workers[w].is_new, workers[w].now))
    /\ workers' = [workers EXCEPT ![w].pc = "escalate"]
    /\ UNCHANGED <<outbox, clock, call, ret, sweep, agents, heap>>

\* The auto-escalation and the return.
UpsertEscalate(w) ==
    /\ workers[w].pc = "escalate"
    /\ outbox' = AutoEscalate(outbox, workers[w].args, workers[w].email,
                              workers[w].ticket_id, workers[w].is_new, clock)
    /\ workers' = [workers EXCEPT ![w].pc = "done"]
    /\ UNCHANGED <<tickets, clock, call, ret, sweep, agents, heap>>

NextRace ==
    \/ \E w \in Workers, a \in RaceRequests, d \in Delays : UpsertBegin(w, a, d)
    \/ \E w \in Workers : UpsertGenerate(w)
    \/ \E w \in Workers : UpsertAppend(w)
    \/ \E w \in Workers : UpsertEscalate(w)

SpecRace == Init /\ [][NextRace]_vars

-----------------------------------------------------------------------------
(* The tools on storage whose writes can fail *)

\* One upsert_ticket_tool call; disk tells how the files take its writes.
UpsertOn(a, d, disk, cap) ==
    LET now == clock + d
    IN  \E r \in {UpsertTicketToolOn(tickets, outbox, now, a, disk)} :
        /\ r.tickets = tickets \/ Len(tickets) < cap
        /\ tickets' = r.tickets
        /\ outbox' = r.outbox
        /\ clock' = IF r.tickets = tickets THEN clock ELSE now
        /\ call' = [op |-> "upsert", args |-> a, disk |-> disk,
                    nT |-> Len(tickets), nO |-> Len(outbox)]
        /\ ret' = r.ret
        /\ UNCHANGED <<workers, sweep, agents, heap>>

\* One close_last_open_ticket_tool call.
CloseOn(user_id, d, disk, cap) ==
    LET now == clock + d
    IN  \E r \in {CloseLastOpenTicketToolOn(tickets, now, user_id, disk)} :
        /\ r.tickets = tickets \/ Len(tickets) < cap
        /\ tickets' = r.tickets
        /\ clock' = IF r.tickets = tickets THEN clock ELSE now
        /\ call' = [op |-> "close", user_id |-> user_id, disk |-> disk,
                    nT |-> Len(tickets), nO |-> Len(outbox)]
        /\ ret' = r.ret
        /\ UNCHANGED <<outbox, workers, sweep, agents, heap>>

\* One get_user_profile_tool call.
ProfileOn(user_id) ==
    /\ call' = [op |-> "profile", user_id |-> user_id,
                nT |-> Len(tickets), nO |-> Len(outbox)]
    /\ ret' = GetUserProfileToolOn(tickets, user_id)
    /\ UNCHANGED <<tickets, outbox, clock, workers, sweep, agents, heap>>

FaultyRequests ==
    Creates \cup {TicketArgs(" A@X.com", "T-000001", "critical", "escalated", Angry)}

NextFaulty ==
    \/ \E a \in FaultyRequests, disk \in Disks : UpsertOn(a, 1, disk, MaxFaultyLog)
    \/ \E u \in UserIds, w \in WriteOutcomes :
           CloseOn(u, 1, [tickets |-> w, outbox |-> "ok"], MaxFaultyLog)
    \/ \E u \in UserIds : ProfileOn(u)

SpecFaulty == Init /\ [][NextFaulty]_vars

-----------------------------------------------------------------------------
(* The tools and whole follow-up passes on a log found at start-up *)

\* Logs found a day after their first event.  A ticket of a, a younger one of b and one whose
\* user_id is no email address; a resolved ticket whose open event is older,
\* next to an open one; a ticket whose latest event by ts is not its last
\* line; a log with a line that is no JSON; a log with a line that is no
\* UTF-8 text.
SweepLogs ==
    { << StoredEvent("a@x.com", "T-000001", TRUE, "open", 0),
         StoredEvent("b@x.com", "T-000002", TRUE, "pending", 1),
         StoredEvent("frontdesk", "T-000003", TRUE, "open", 0) >>,
      << StoredEvent("a@x.com", "T-000001", TRUE, "open", 0),
         StoredEvent("b@x.com", "T-000002", TRUE, "open", 0),
         StoredEvent("a@x.com", "T-000001", FALSE, "resolved", 2) >>,
      << StoredEvent("a@x.com", "T-000001", TRUE, "open", 0),
         StoredEvent("a@x.com", "T-000001", FALSE, "closed", 2),
         StoredEvent("a@x.com", "T-000001", FALSE, "escalated", 1) >>,
      << StoredEvent("a@x.com", "T-000001", TRUE, "open", 0),
         Garbage,
         StoredEvent("b@x.com", "T-000002", TRUE, "open", 1) >>,
      << StoredEvent("a@x.com", "T-000001", TRUE, "open", 0),
         Undecodable,
         StoredEvent("b@x.com", "T-000002", TRUE, "open", 1) >> }

InitSweep ==
    /\ tickets \in SweepLogs
    /\ outbox = << >>
    /\ clock = THRESHOLD_SECONDS
    /\ call = [op |-> "none"]
    /\ ret = [ok |-> TRUE]
    /\ workers = [w \in Workers |-> Idle]
    /\ agents = NoAgents
    /\ heap = NoHeap
    /\ sweep = [pc |-> "idle", runs |-> 0]

\* The ticket ids whose draft or append may raise during a pass.
Failings == SUBSET {"T-000001", "T-000002"}

\* A pass that resolves the stale tickets it writes to.
FollowupResolving(d, failing, cap) ==
    LET now == clock + d
        stale_tickets == FilterStaleTickets(GetOpenTicketsByUser(tickets), now)
    IN  /\ Len(tickets) + Len(outbox) < cap
        /\ Decodable(tickets)
        /\ clock' = now
        /\ outbox' = RunFollowupOnce(tickets, outbox, now, failing)
        /\ tickets' = IF stale_tickets = << >> THEN tickets
                      ELSE AppendJsonl(tickets, ClosingRecord(stale_tickets[1].rec,
                               NormalizeEmail(stale_tickets[1].rec.user_id), now))
        /\ call' = [op |-> "followup", now |-> now, failing |-> failing,
                    nT |-> Len(tickets), nO |-> Len(outbox)]
        /\ ret' = [ok |-> TRUE]
        /\ UNCHANGED <<workers, sweep, agents, heap>>

\* One whole run_followup_once() pass, d after the latest time read.
Followup(d, failing, cap) ==
    LET now == clock + d
    IN  \E r \in {RunFollowupOnceOn(tickets, outbox, now, failing)} :
        /\ Len(tickets) + Len(outbox) < cap
        /\ clock' = now
        /\ outbox' = r.outbox
        /\ call' = [op |-> "followup", now |-> now, failing |-> failing,
                    nT |-> Len(tickets), nO |-> Len(outbox)]
        /\ ret' = r.ret
        /\ UNCHANGED <<tickets, workers, sweep, agents, heap>>

\* Days gone by since the first event of the log.
Days == clock \div THRESHOLD_SECONDS

SweepRequests ==
    {TicketArgs("b@x.com", None, "low", "pending", Calm),
     TicketArgs(" A@X.com", "T-000001", "high", "open", Angry)}

NextSweep ==
    \/ \E a \in SweepRequests : UpsertOn(a, 1, Healthy, MaxSweep - Len(outbox) - Days)
    \/ \E u \in UserIds, d \in Delays : CloseOn(u, d, Healthy, MaxSweep - Len(outbox) - Days)
    \/ \E u \in UserIds : ProfileOn(u)
    \/ \E d \in SweepDelays, failing \in Failings : Followup(d, failing, MaxSweep - Days)

SpecSweep == InitSweep /\ [][NextSweep]_vars

-----------------------------------------------------------------------------
(* app/followup_scheduler.py: main() is one thread that registers job() to  *)
(* run every day and then loops over schedule.run_pending() and             *)
(* time.sleep(1).  sweep holds the thread: pc "idle" in the loop, "sending" *)
(* inside job(); runs and finished count the calls of job() and its         *)
(* returns; next_run is when the schedule wants the next call.  The        *)
(* scheduler was started when the first event of the log was written.       *)

\* The time that goes by between two looks at the clock.
HalfDay == THRESHOLD_SECONDS \div 2

InitScheduler ==
    /\ tickets \in {file \in SweepLogs : Decodable(file)}
    /\ outbox = << >>
    /\ clock = THRESHOLD_SECONDS
    /\ call = [op |-> "none"]
    /\ ret = [ok |-> TRUE]
    /\ workers = [w \in Workers |-> Idle]
    /\ agents = NoAgents
    /\ heap = NoHeap
    /\ sweep = [pc |-> "idle", runs |-> 0, finished |-> 0,
                next_run |-> THRESHOLD_SECONDS]

\* Time goes by, in time.sleep(1) or while a pass waits for the language model.
TimePasses(cap) ==
    /\ Days < cap
    /\ clock' = clock + HalfDay
    /\ UNCHANGED <<tickets, outbox, call, ret, workers, sweep, agents, heap>>

\* A scheduler that hands each due job to a thread of its own and goes on.
RunPendingThreaded ==
    LET stale_tickets == FilterStaleTickets(GetOpenTicketsByUser(tickets), clock)
    IN  /\ clock >= sweep.next_run
        /\ sweep' = IF stale_tickets = << >>
                    THEN [sweep EXCEPT !.runs = @ + 1, !.finished = @ + 1,
                                       !.next_run = clock + THRESHOLD_SECONDS]
                    ELSE [pc |-> "sending", runs |-> sweep.runs + 1,
                          finished |-> sweep.finished,
                          next_run |-> clock + THRESHOLD_SECONDS,
                          now |-> clock, todo |-> stale_tickets]
        /\ UNCHANGED <<tickets, outbox, clock, call, ret, workers, agents, heap>>

\* schedule.run_pending() finds the job due and calls job(): the thread is
\* inside run_followup_once until it returns.  A pass with nothing stale
\* returns at once and the job is set for a day later.
RunPending ==
    LET stale_tickets == FilterStaleTickets(GetOpenTicketsByUser(tickets), clock)
    IN  /\ sweep.pc = "idle"
        /\ clock >= sweep.next_run
        /\ sweep' = IF stale_tickets = << >>
                    THEN [sweep EXCEPT !.runs = @ + 1, !.finished = @ + 1,
                                       !.next_run = clock + THRESHOLD_SECONDS]
                    ELSE [pc |-> "sending", runs |-> sweep.runs + 1,
                          finished |-> sweep.finished, next_run |-> sweep.next_run,
                          now |-> clock, todo |-> stale_tickets]
        /\ UNCHANGED <<tickets, outbox, clock, call, ret, workers, agents, heap>>

\* One turn of the loop of the pass; after the last one job() returns and
\* the schedule sets the job for a day after that moment.
JobStep(drafted) ==
    /\ sweep.pc = "sending"
    /\ outbox' = FollowupOne(outbox, clock, Head(sweep.todo), drafted)
    /\ sweep' = IF Len(sweep.todo) = 1
                THEN [pc |-> "idle", runs |-> sweep.runs,
                      finished |-> sweep.finished + 1,
                      next_run |-> clock + THRESHOLD_SECONDS]
                ELSE [sweep EXCEPT !.todo = Tail(sweep.todo)]
    /\ UNCHANGED <<tickets, clock, call, ret, workers, agents, heap>>

NextScheduler ==
    \/ TimePasses(MaxSchedulerDays)
    \/ RunPending
    \/ \E drafted \in BOOLEAN : JobStep(drafted)

SpecScheduler == InitScheduler /\ [][NextScheduler]_vars

-----------------------------------------------------------------------------
(* The id generator on a log with ticket ids that callers supplied *)

\* Ticket ids a manage_ticket call may carry: the generator's own form, a
\* short and a long run of digits, a signed and a padded number, other
\* prefixes, a suffix that is no number.
SuppliedIds ==
    {"T-000002", "T-7", "T-0000012", "T-+4", "T- 3", "T--5", "T-12a", "X-000009", "t-000009"}

IdRequests ==
    {TicketArgs(" A@X.com", None, "low", "open", Calm)}
    \cup {TicketArgs(" A@X.com", tid, "low", "open", Calm) : tid \in SuppliedIds}

NextIds == \E a \in IdRequests : Upsert(a, 1, MaxIdLog)

SpecIds == Init /\ [][NextIds]_vars

-----------------------------------------------------------------------------
(* app/agent.py: the tools as build_agent registers them for the agent *)

\* func of close_last_ticket: lambda dummy="ok": close_last_open_ticket_tool().
\* The call passes no user_id to a function that requires one, so Python
\* raises TypeError before the function body runs.
CloseLastTicketFunc(file, now, dummy) ==
    [tickets |-> file, ret |-> Raise("TypeError")]

\* The agent calls the close_last_ticket tool.
CloseLastTicket(dummy, d) ==
    LET now == clock + d
    IN  \E r \in {CloseLastTicketFunc(tickets, now, dummy)} :
        /\ tickets' = r.tickets
        /\ call' = [op |-> "close_last_ticket", dummy |-> dummy,
                    nT |-> Len(tickets), nO |-> Len(outbox)]
        /\ ret' = r.ret
        /\ UNCHANGED <<outbox, clock, workers, sweep, agents, heap>>

NextAgent ==
    \/ \E a \in Creates \cup Updates : Upsert(a, 1, MaxAgentLog)
    \/ \E u \in UserIds : Profile(u)
    \/ CloseLastTicket("ok", 1)

SpecAgent == Init /\ [][NextAgent]_vars

-----------------------------------------------------------------------------
(* The vocabulary of the claims *)

\* The log lines from before the latest call, and the line it appended.
LogBefore == SubSeq(tickets, 1, call.nT)
Appended == tickets[Len(tickets)]

TicketIdsIn(events) == {events[i].ticket_id : i \in DOMAIN events}

EventsOfTicket(events, tid) == SelectSeq(events, LAMBDA e : e.ticket_id = tid)

TopTs(events) ==
    CHOOSE t \in {events[i].ts : i \in DOMAIN events} :
        \A i \in DOMAIN events : events[i].ts <= t

\* The events of ticket tid that carry its maximum ts: one event, its
\* current state, unless timestamps collide.
CurrentStates(events, tid) ==
    LET mine == EventsOfTicket(events, tid)
    IN  {mine[i] : i \in {j \in DOMAIN mine : mine[j].ts = TopTs(mine)}}

\* Ticket tid is resolved or closed, whichever of its max-ts events is taken
\* for its current state.
IsClosed(events, tid) == \A e \in CurrentStates(events, tid) : e.status \in Terminal

\* Ticket tid is open, whichever of its max-ts events is taken.
IsOpen(events, tid) == \A e \in CurrentStates(events, tid) : e.status \notin Terminal

Known(user_id) == NormalizeEmail(user_id) \in LoadDummyUsers

\* The user has tickets, and each is closed both in the whole log and among
\* the user's own events.
AllTicketsClosed(events, user_id) ==
    LET mine == EventsOfUser(events, NormalizeEmail(user_id))
    IN  /\ Len(mine) > 0
        /\ \A tid \in TicketIdsIn(mine) : IsClosed(events, tid) /\ IsClosed(mine, tid)

ClosedBy(step_call, step_ret) == step_call.op = "close" /\ step_ret.ok

\* No two events of the log carry the same timestamp.
NoCollision(events) ==
    \A i, j \in DOMAIN events : i # j => events[i].ts # events[j].ts

-----------------------------------------------------------------------------
(* Claims about close_last_open_ticket_tool *)

\* C1: a close call for a known user whose every ticket is, by its max-ts
\* event, resolved or closed returns the no_open_ticket failure and appends
\* nothing (stated for logs whose timestamps do not collide).
C1_ClosedUserGetsNoOpenTicket ==
    [][(call'.op = "close" /\ Known(call'.user_id) /\ NoCollision(tickets')
            /\ AllTicketsClosed(tickets, call'.user_id))
        => (~ret'.ok /\ ret'.reason = "no_open_ticket" /\ tickets' = tickets)]_vars

\* C2: a successful close never appends its resolved event to a ticket whose
\* current state was already resolved or closed (stated for logs whose
\* timestamps do not collide).
C2_NeverClosesClosedTicket ==
    [][(ClosedBy(call', ret') /\ NoCollision(tickets'))
        => ~(/\ IsClosed(tickets, ret'.ticket_id)
             /\ IsClosed(EventsOfUser(tickets, ret'.user_id), ret'.ticket_id))]_vars

\* C7: when the user has several tickets and at least one is open, a
\* successful close appends its resolved event to the user's open ticket of
\* greatest timestamp, and every other ticket keeps its current state (stated
\* for logs whose timestamps do not collide).
C7_ClosesLatestOpenTicket ==
    [][(/\ ClosedBy(call', ret')
        /\ NoCollision(tickets')
        /\ LET mine == EventsOfUser(tickets, ret'.user_id)
           IN  /\ Cardinality(TicketIdsIn(mine)) >= 2
               /\ \E tid \in TicketIdsIn(mine) : IsOpen(mine, tid) /\ IsOpen(tickets, tid))
       => LET mine == EventsOfUser(tickets, ret'.user_id)
              target == ret'.ticket_id
          IN  /\ tickets' = Append(tickets, tickets'[Len(tickets')])
              /\ tickets'[Len(tickets')].ticket_id = target
              /\ tickets'[Len(tickets')].status = "resolved"
              /\ ~IsClosed(mine, target)
              /\ \A tid \in TicketIdsIn(mine) :
                     IsOpen(mine, tid)
                         => TopTs(EventsOfTicket(mine, tid)) <= TopTs(EventsOfTicket(mine, target))
              /\ \A tid \in TicketIdsIn(tickets) \ {target} :
                     CurrentStates(tickets', tid) = CurrentStates(tickets, tid)]_vars

\* C8: once a known user's only ticket was created and a close for that user
\* returned ok, get_user_profile reports total_tickets = 1 and
\* open_tickets = 0, whatever the two timestamps.
C8_ClosedTicketCountsAsClosed ==
    [][(/\ ClosedBy(call', ret')
        /\ LET mine == EventsOfUser(tickets, ret'.user_id)
           IN  Len(mine) = 1 /\ mine[1].event = "created")
       => LET profile == GetUserProfileTool(tickets', call'.user_id)
          IN  profile.total_tickets = 1 /\ profile.open_tickets = 0]_vars

\* C9: the event a successful close appends is resolved, 'updated',
\* auto_closed, and carries the ticket_id, topic, department, urgency and
\* emotion of the record it closes: a non-terminal record of the user of
\* greatest timestamp.
C9_CloseCopiesClassification ==
    [][ClosedBy(call', ret')
       => LET new == tickets'[Len(tickets')]
              mine == EventsOfUser(tickets, NormalizeEmail(call'.user_id))
              candidates == {i \in DOMAIN mine : mine[i].status \notin {"resolved", "closed"}}
          IN  /\ tickets' = Append(tickets, new)
              /\ new.status = "resolved"
              /\ new.event = "updated"
              /\ <<"auto_closed", TRUE>> \in new.meta
              /\ ret'.ticket_id = new.ticket_id
              /\ \E i \in candidates :
                    /\ \A j \in candidates : mine[j].ts <= mine[i].ts
                    /\ new.ticket_id = mine[i].ticket_id
                    /\ new.topic = mine[i].topic
                    /\ new.department = mine[i].department
                    /\ new.urgency = mine[i].urgency
                    /\ new.emotion = mine[i].emotion]_vars

\* A critical ticket of T-000050 was closed after a high one was opened.
C9_Witness ==
    /\ ClosedBy(call, ret)
    /\ Appended.ticket_id = "T-000050"
    /\ Appended.urgency = "critical"
    /\ Appended.emotion = "angry"
    /\ \E i \in DOMAIN LogBefore : LogBefore[i].urgency = "high" /\ LogBefore[i].status = "open"

\* C10: no close call, successful or not, appends an outbound message.
C10_CloseSendsNothing ==
    [][call'.op = "close" => outbox' = outbox]_vars

\* A ticket of high urgency was closed and the outbox is as before.
C10_Witness ==
    /\ ClosedBy(call, ret)
    /\ Appended.urgency \in {"high", "critical"}
    /\ Len(outbox) = call.nO
    /\ Len(outbox) > 0

-----------------------------------------------------------------------------
(* Claims about upsert_ticket_tool *)

Upserted(step_call, step_ret) == step_call.op = "upsert" /\ step_ret.ok

TicketNumber(tid) == PyInt(SubSeq(tid, 3, Len(tid))).value

\* C3: a generated ticket id equals no ticket_id already in the log and is
\* greater than every id generated before it; after T-000050 it is T-000051.
C3_GeneratedIdsIncrease ==
    [][(Upserted(call', ret') /\ call'.args.ticket_id = None)
       => /\ ret'.operation = "created"
          /\ tickets'[Len(tickets')].ticket_id = ret'.ticket_id
          /\ \A i \in DOMAIN tickets : tickets[i].ticket_id # ret'.ticket_id
          /\ \A i \in DOMAIN tickets :
                 tickets[i].event = "created"
                     => TicketNumber(tickets[i].ticket_id) < TicketNumber(ret'.ticket_id)
          /\ (/\ "T-000050" \in TicketIdsIn(tickets)
              /\ TicketIdsIn(tickets) \subseteq {"T-000001", "T-000002", "T-000050"})
                 => ret'.ticket_id = "T-000051"]_vars

\* T-000051 was generated for a log that held T-000050 and a closed ticket.
C3_Witness ==
    /\ Upserted(call, ret)
    /\ ret.operation = "created"
    /\ ret.ticket_id = "T-000051"
    /\ \E i \in DOMAIN LogBefore : LogBefore[i].meta # {}

\* C5: upsert for an email whose normalized form is no key of users.json
\* returns the unknown_user failure and leaves both logs as they were.
C5_UnknownUserAppendsNothing ==
    [][(call'.op = "upsert" /\ NormalizeEmail(call'.args.user_id) \notin LoadDummyUsers)
       => (~ret'.ok /\ ret'.reason = "unknown_user"
           /\ tickets' = tickets /\ outbox' = outbox)]_vars

\* An unknown email passed a ticket_id that is in the log, and got the failure.
C5_Witness ==
    /\ call.op = "upsert"
    /\ ~ret.ok
    /\ call.args.ticket_id \in TicketIdsIn(tickets)
    /\ call.args.urgency = "high"
    /\ Len(tickets) = call.nT

Urgencies == {"low", "medium", "high", "critical"}
Statuses == {"open", "pending", "resolved", "escalated", "closed"}

\* C6: a successful upsert appends exactly one ticket event, and exactly one
\* outbound message, to the support address, if urgency is high or critical
\* and status is neither resolved nor closed, and no message otherwise; the
\* same holds of every urgency and status the call could have passed.
C6_EscalatesIffUrgentAndOpen ==
    [][Upserted(call', ret')
       => /\ Len(tickets') = Len(tickets) + 1
          /\ SubSeq(tickets', 1, Len(tickets)) = tickets
          /\ IF call'.args.urgency \in {"high", "critical"}
                    /\ call'.args.status \notin {"resolved", "closed"}
             THEN /\ Len(outbox') = Len(outbox) + 1
                  /\ SubSeq(outbox', 1, Len(outbox)) = outbox
                  /\ outbox'[Len(outbox')].to = "support@tawasul31.com"
             ELSE outbox' = outbox
          /\ \A u \in Urgencies, st \in Statuses :
                Len(AutoEscalate(outbox, [call'.args EXCEPT !.urgency = u, !.status = st],
                                 ret'.user_email, ret'.ticket_id,
                                 call'.args.ticket_id = None, clock'))
                    = Len(outbox) +
                          (IF u \in {"high", "critical"} /\ st \notin {"resolved", "closed"}
                           THEN 1 ELSE 0)]_vars

\* A critical update with status escalated queued one message.
C6_Witness ==
    /\ Upserted(call, ret)
    /\ call.args.urgency = "critical"
    /\ call.args.status = "escalated"
    /\ Len(outbox) = call.nO + 1
    /\ outbox[Len(outbox)].to = SUPPORT_EMAIL

\* Both calls generated their id from the same contents of the log.
ReadSameLog(w1, w2) ==
    /\ w1 # w2
    /\ workers[w1].pc \in {"append", "escalate", "done"}
    /\ workers[w2].pc \in {"append", "escalate", "done"}
    /\ workers[w1].is_new /\ workers[w2].is_new
    /\ workers[w1].seen = workers[w2].seen

\* C4: two overlapping creating calls that both read the log before either
\* appends are issued the same ticket_id, and once both have appended the log
\* holds two 'created' events under that id; no step of one call waits for
\* the other.
C4_RaceIssuesSameId ==
    \A w1, w2 \in Workers :
        /\ ReadSameLog(w1, w2)
               => /\ workers[w1].ticket_id = workers[w2].ticket_id
                  /\ (workers[w1].pc # "append" /\ workers[w2].pc # "append")
                         => \E i, j \in DOMAIN tickets :
                                /\ i < j
                                /\ tickets[i].event = "created"
                                /\ tickets[j].event = "created"
                                /\ tickets[i].ticket_id = workers[w1].ticket_id
                                /\ tickets[j].ticket_id = workers[w1].ticket_id
                                /\ {tickets[i].user_id, tickets[j].user_id}
                                       = {workers[w1].email, workers[w2].email}
        /\ (w1 # w2 /\ workers[w1].pc = "append" /\ workers[w2].pc = "generate")
               => ENABLED UpsertGenerate(w2)

\* The log holds two 'created' events of different users under one ticket_id.
C4_Witness ==
    \E i, j \in DOMAIN tickets :
        /\ i < j
        /\ tickets[i].event = "created"
        /\ tickets[j].event = "created"
        /\ tickets[i].ticket_id = tickets[j].ticket_id
        /\ tickets[i].user_id # tickets[j].user_id

-----------------------------------------------------------------------------
(* Claims about the failures of close_last_open_ticket_tool *)

CloseFailures == {"unknown_user", "no_tickets_file", "no_tickets_for_user", "no_open_ticket"}

\* The log holds an event that carries the email of user_id.
HasEventsOf(events, user_id) ==
    \E i \in DOMAIN events : NormalizeEmail(events[i].user_id) = NormalizeEmail(user_id)

\* C11: a close call that fails, with any of its four reasons, leaves the
\* event log as it was; and a close call for an email that is not a key of
\* users.json fails with unknown_user, also when the log holds events that
\* carry that email.
C11_FailedCloseAppendsNothing ==
    [][call'.op = "close"
       => /\ ~ret'.ok => (ret'.reason \in CloseFailures /\ tickets' = tickets)
          /\ ~Known(call'.user_id)
                 => (~ret'.ok /\ ret'.reason = "unknown_user" /\ tickets' = tickets)]_vars

\* A removed user, whose ticket is still in the log, asked to close it.
C11_Witness ==
    /\ call.op = "close"
    /\ ~ret.ok /\ ret.reason = "unknown_user"
    /\ HasEventsOf(tickets, call.user_id)

\* The latest call was a close for a known user of whom the log it read held
\* no event.
ClosedWithoutEvents(step_call, events) ==
    /\ step_call.op = "close"
    /\ Known(step_call.user_id)
    /\ ~HasEventsOf(events, step_call.user_id)

\* C12 as claimed: a close call for a known user who has no event in the log
\* fails with no_tickets_for_user, whether the log holds events of other
\* users or is empty.
C12_NoEventsMeansNoTicketsForUser ==
    [][ClosedWithoutEvents(call', tickets)
       => (~ret'.ok /\ ret'.reason = "no_tickets_for_user")]_vars

\* C12: a close call for a known user who has no event in the log fails with
\* no_tickets_for_user when the log holds events of other users and with
\* no_tickets_file when the log holds no event at all; it appends nothing.
C12_NoEventsMeansNoTicketsForUserOrNoFile ==
    [][ClosedWithoutEvents(call', tickets)
       => /\ ~ret'.ok
          /\ ret'.reason = IF Len(ReadTicketEvents(tickets)) = 0 THEN "no_tickets_file"
                           ELSE "no_tickets_for_user"
          /\ tickets' = tickets]_vars

\* A known user without events asked to close while the log held the events
\* of somebody else.
C12_Witness ==
    /\ ClosedWithoutEvents(call, tickets)
    /\ Len(tickets) > 0
    /\ ret.reason = "no_tickets_for_user"

-----------------------------------------------------------------------------
(* Claims about whose ticket close_last_open_ticket_tool closes *)

\* Event e is an open event of the user with this email, and new carries its
\* ticket_id and its classification.
SelectedFrom(e, email, new) ==
    /\ NormalizeEmail(e.user_id) = email
    /\ e.status \notin Terminal
    /\ e.ticket_id = new.ticket_id
    /\ e.topic = new.topic /\ e.department = new.department
    /\ e.urgency = new.urgency /\ e.emotion = new.emotion

\* C13: the event a successful close appends for a user carries that user's
\* email and the ticket_id and classification of an open event of that same
\* user in the log, never those of a record of another user.
C13_ClosesOwnTicketOnly ==
    [][ClosedBy(call', ret')
       => LET email == NormalizeEmail(call'.user_id)
              new == tickets'[Len(tickets')]
          IN  /\ Len(tickets') = Len(tickets) + 1
              /\ new.user_id = email
              /\ new.ticket_id = ret'.ticket_id
              /\ \E i \in DOMAIN tickets : SelectedFrom(tickets[i], email, new)]_vars

\* A close succeeded while an open event of another user, for another
\* ticket, had a greater ts than every event of the caller.
C13_Witness ==
    /\ ClosedBy(call, ret)
    /\ \E i \in DOMAIN LogBefore :
          /\ NormalizeEmail(LogBefore[i].user_id) # NormalizeEmail(call.user_id)
          /\ LogBefore[i].status \notin Terminal
          /\ LogBefore[i].ticket_id # ret.ticket_id
          /\ \A j \in DOMAIN LogBefore :
                NormalizeEmail(LogBefore[j].user_id) = NormalizeEmail(call.user_id)
                    => LogBefore[j].ts < LogBefore[i].ts

-----------------------------------------------------------------------------
(* Claims about the event log as a whole *)

\* C14: every event of the log carries a user_id that is a normalized key of
\* users.json, whatever upserts, closes, profile lookups and follow-up passes
\* have run.
C14_EveryEventHasKnownUser ==
    \A i \in DOMAIN tickets : tickets[i].user_id \in LoadDummyUsers

\* An upsert for an email that is not in users.json was refused while the log
\* already held events.
C14_Witness ==
    /\ Len(tickets) > 0
    /\ call.op = "upsert"
    /\ ~ret.ok
    /\ ~Known(call.args.user_id)

\* C15: every step of every tool and of the follow-up pass, however they
\* interleave, leaves the events the log held as a prefix of the log: no
\* event is edited or removed and the log never gets shorter.
C15_LogIsAppendOnly ==
    [][/\ Len(tickets') >= Len(tickets)
       /\ SubSeq(tickets', 1, Len(tickets)) = tickets]_vars

\* An event was appended to a log that held one already, while a follow-up
\* pass was between two of its emails.
C15_Witness ==
    /\ sweep.pc = "sending"
    /\ Len(tickets) >= 2
    /\ tickets[Len(tickets)].ts > sweep.now

\* The documented values of the classification fields.
Topics ==
    {"order_status", "delivery_issue", "refund", "return_exchange", "billing_payment",
     "technical_issue", "account_access", "general_question"}
Departments == {"support", "billing", "technical", "sales", "general"}
Emotions == {"neutral", "confused", "frustrated", "angry", "sad", "happy"}

\* C16: every event of the log has its topic, department, urgency, emotion
\* and status among the documented values, whatever the caller passed.
C16_EventsAreClassified ==
    \A i \in DOMAIN tickets :
        /\ tickets[i].topic \in Topics
        /\ tickets[i].department \in Departments
        /\ tickets[i].urgency \in Urgencies
        /\ tickets[i].emotion \in Emotions
        /\ tickets[i].status \in Statuses

\* C17: for each ticket_id, the first event of the log that carries it is
\* marked 'created' and every later one is marked 'updated'.
C17_FirstEventIsCreated ==
    \A i \in DOMAIN tickets :
        tickets[i].event =
            IF \E j \in 1..(i - 1) : tickets[j].ticket_id = tickets[i].ticket_id
            THEN "updated" ELSE "created"

-----------------------------------------------------------------------------
(* Claims about get_user_profile_tool *)

\* The events of the user of the latest call, in the log it read.
Mine == EventsOfUser(ReadTicketEvents(tickets), NormalizeEmail(call.user_id))

\* The latest call was a profile lookup for a known user who has events.
ProfiledWithEvents == call.op = "profile" /\ Known(call.user_id) /\ Len(Mine) > 0

\* C18: for a known user with at least one event the profile reports as
\* total_tickets the number of distinct ticket_ids among the user's events, as
\* open_tickets the number of those tickets whose max-ts event is neither
\* resolved nor closed (where several events of a ticket share its maximum
\* ts, a ticket counts if they all are open and does not if none is), as
\* has_open_tickets whether open_tickets > 0, and as last_ticket_ts the
\* maximum ts of all the user's events.
C18_ProfileCountsTickets ==
    ProfiledWithEvents
        => /\ ret.ok
           /\ ret.total_tickets = Cardinality(TicketIdsIn(Mine))
           /\ ret.open_tickets >= Cardinality({t \in TicketIdsIn(Mine) : IsOpen(Mine, t)})
           /\ ret.open_tickets <= Cardinality({t \in TicketIdsIn(Mine) : ~IsClosed(Mine, t)})
           /\ ret.has_open_tickets = (ret.open_tickets > 0)
           /\ ret.last_ticket_ts = TopTs(Mine)

\* A profile of a user whose log has an event with a smaller ts after one
\* with a greater ts, of a ticket whose max-ts event is resolved.
C18_Witness ==
    /\ ProfiledWithEvents
    /\ \E i, j \in DOMAIN Mine :
          /\ i < j /\ Mine[i].ts > Mine[j].ts
          /\ Mine[i].ticket_id = Mine[j].ticket_id
          /\ Mine[i].status \in Terminal /\ Mine[j].status \notin Terminal
    /\ ret.open_tickets < ret.total_tickets

\* The counts of a profile are those of a user without tickets.
ZeroCounts(profile) ==
    /\ profile.is_new_user
    /\ profile.total_tickets = 0
    /\ profile.open_tickets = 0
    /\ ~profile.has_open_tickets

C20_ProfileIsPureRead ==
    [][(call'.op = "profile" /\ sweep' = sweep)
       => /\ tickets' = tickets
          /\ outbox' = outbox
          /\ (call.op = "profile" /\ call.user_id = call'.user_id /\ call.nT = call'.nT)
                 => ret' = ret]_vars

\* A profile of a user with tickets, looked up after a follow-up pass mailed
\* that user.
C20_Witness ==
    /\ call.op = "profile"
    /\ ret.ok /\ ret.total_tickets > 0
    /\ call.nO = Len(outbox)
    /\ \E k \in DOMAIN outbox : outbox[k].to = ret.user_id

-----------------------------------------------------------------------------
(* Claims about writes that fail *)

\* The latest call was an upsert for a known user that reached its append.
ReachedAppend(step_call) ==
    /\ step_call.op = "upsert"
    /\ Known(step_call.args.user_id)

\* C21: when the append of the escalation mail fails during an upsert, the
\* ticket event appended just before stays in the log and the call still
\* returns its success result; the failure of the mail is not propagated.
C21_MailFailureIsNotPropagated ==
    [][(/\ ReachedAppend(call')
        /\ call'.disk = [tickets |-> "ok", outbox |-> "fails"]
        /\ ShouldEscalate(call'.args.urgency, call'.args.status))
       => (/\ tickets' = AppendJsonl(tickets, tickets'[Len(tickets')])
           /\ outbox' = outbox
           /\ ret'.ok
           /\ ret'.status = call'.args.status)]_vars

\* C22: when the append of the ticket event fails, upsert and close do not
\* return success: the error leaves the call; the log gains no readable
\* event and the upsert appends no escalation mail.
C22_FailedEventAppendPropagates ==
    [][(/\ call'.op \in {"upsert", "close"}
        /\ call'.disk.tickets # "ok"
        /\ Known(IF call'.op = "upsert" THEN call'.args.user_id ELSE call'.user_id)
        /\ call'.op = "close" =>
               \E r \in {CloseLastOpenTicketTool(tickets, clock + 1, call'.user_id)} : r.ret.ok)
       => (/\ ~ret'.ok
           /\ ret' = Raise("OSError")
           /\ ReadTicketEvents(tickets') = ReadTicketEvents(tickets)
           /\ outbox' = outbox)]_vars

\* An upsert that should escalate, and a close with a ticket to close, each
\* failed on the append of its event.
C22_Witness ==
    /\ call.op = "close"
    /\ call.disk.tickets = "torn"
    /\ ret = Raise("OSError")
    /\ tickets[Len(tickets)] = Torn
    /\ \E i \in DOMAIN tickets : tickets[i].type = "ticket_event" /\ tickets[i].urgency = "high"

-----------------------------------------------------------------------------
(* Claims about reading back what was appended *)

\* C30: after an append that succeeded (the upsert or close returned its
\* success result) on a log with n readable records, reading the log returns
\* n + 1 records: the first n as before, in order, and last the appended
\* event, field for field.
C30_AppendThenReadRoundTrip ==
    [][(call'.op \in {"upsert", "close"} /\ ret'.ok)
       => LET before == ReadTicketEvents(tickets)
              after == ReadTicketEvents(tickets')
          IN  /\ Len(after) = Len(before) + 1
              /\ SubSeq(after, 1, Len(before)) = before
              /\ call'.op = "upsert" =>
                     after[Len(after)] =
                         UpsertRecord(call'.args, ret'.user_email, ret'.ticket_id,
                                      call'.args.ticket_id = None, clock')
              /\ call'.op = "close" =>
                     /\ after[Len(after)].ticket_id = ret'.ticket_id
                     /\ after[Len(after)].user_id = NormalizeEmail(call'.user_id)
                     /\ after[Len(after)].status = "resolved"
                     /\ after[Len(after)].ts = clock']_vars

-----------------------------------------------------------------------------
(* Claims about one follow-up pass *)

\* The step is one whole pass that read the log.
PassStep == call'.op = "followup" /\ ret'.ok

\* The places in the outbox of the messages the step appended about ticket tid.
NewFollowups(tid) ==
    {i \in (Len(outbox) + 1)..Len(outbox') : <<"ticket_id", tid>> \in outbox'[i].meta}

\* Seconds from the ticket's current state to now.
Age(events, tid, now) == now - TopTs(EventsOfTicket(events, tid))

\* The user_id of the ticket's current state is an email address.
HasEmail(events, tid) ==
    \A e \in CurrentStates(events, tid) : Contains(NormalizeEmail(e.user_id), "@")

\* The pass at time now owes ticket tid a follow-up.
Stale(events, tid, now) ==
    IsOpen(events, tid) /\ Age(events, tid, now) >= THRESHOLD_SECONDS

C24_NoFollowupForClosedTicket ==
    [][PassStep =>
       \A tid \in TicketIdsIn(ReadTicketEvents(tickets)) :
           IsClosed(ReadTicketEvents(tickets), tid) => NewFollowups(tid) = {}]_vars

\* A pass mailed b and not a, whose ticket has an open event older than 24 h
\* and a later resolved one.
C24_Witness ==
    /\ call.op = "followup"
    /\ ret.ok
    /\ Len(outbox) = call.nO + 1
    /\ outbox[Len(outbox)].to = "b@x.com"
    /\ LET events == ReadTicketEvents(tickets)
       IN  /\ "T-000001" \in TicketIdsIn(events)
           /\ IsClosed(events, "T-000001")
           /\ \E i \in DOMAIN events :
                  /\ events[i].ticket_id = "T-000001"
                  /\ events[i].status = "open"
                  /\ call.now - events[i].ts >= THRESHOLD_SECONDS

\* C25: a pass appends nothing to the event log: after it the log is what it
\* was, and no stale ticket has been closed.
C25_PassLeavesLogAlone ==
    [][call'.op = "followup" =>
       /\ tickets' = tickets
       /\ ret'.ok => \A tid \in TicketIdsIn(ReadTicketEvents(tickets)) :
              Stale(ReadTicketEvents(tickets), tid, call'.now)
              => IsOpen(ReadTicketEvents(tickets'), tid)]_vars

\* A pass sent a follow-up about a stale ticket, which is still open.
C25_Witness ==
    /\ call.op = "followup"
    /\ ret.ok
    /\ Len(outbox) > call.nO
    /\ Len(tickets) = call.nT
    /\ \E tid \in TicketIdsIn(ReadTicketEvents(tickets)) :
           /\ <<"ticket_id", tid>> \in outbox[Len(outbox)].meta
           /\ Stale(ReadTicketEvents(tickets), tid, call.now)

\* The pass fails on ticket tid: its user_id is no email address, or its
\* draft or append raises.
FailsOn(events, tid, failing) == ~HasEmail(events, tid) \/ tid \in failing

\* C26: a failure on one stale ticket of a pass does not end the pass: every
\* other stale ticket with an email address whose draft and append succeed
\* gets its message, be it before or after the failing one in the pass.
C26_FailureDoesNotAbortPass ==
    [][PassStep =>
       LET events == ReadTicketEvents(tickets)
           now == call'.now
       IN  \A bad, good \in TicketIdsIn(events) :
               (/\ Stale(events, bad, now) /\ FailsOn(events, bad, call'.failing)
                /\ Stale(events, good, now) /\ ~FailsOn(events, good, call'.failing))
               => NewFollowups(good) # {}]_vars

\* A pass whose first stale ticket failed on its draft mailed the second.
C26_Witness ==
    /\ call.op = "followup"
    /\ ret.ok
    /\ call.failing = {"T-000001"}
    /\ Stale(ReadTicketEvents(tickets), "T-000001", call.now)
    /\ HasEmail(ReadTicketEvents(tickets), "T-000001")
    /\ Len(outbox) = call.nO + 1
    /\ <<"ticket_id", "T-000002">> \in outbox[Len(outbox)].meta

-----------------------------------------------------------------------------
(* Claims about a damaged line in the log *)

\* The lines of the file that are not a record of the program.
Corrupt(file) == {i \in DOMAIN file : file[i].type # "ticket_event"}

\* C29: a corrupt line in the event log is skipped by the read, which still
\* returns every other record in append order, and makes no upsert, profile
\* lookup, close or follow-up pass fail.
C29_CorruptLineFailsNoCall ==
    [][(Corrupt(tickets) # {} /\ call'.op \in {"upsert", "profile", "close", "followup"})
       => /\ "raised" \notin DOMAIN ret'
          /\ Decodable(tickets) =>
                 ReadTicketEvents(tickets) =
                     SelectSeq(tickets, LAMBDA line : line.type = "ticket_event")]_vars

-----------------------------------------------------------------------------
(* Claims about follow-ups over several passes *)

\* The places in the outbox of the follow-ups about ticket tid.
FollowupsOf(tid) ==
    {i \in DOMAIN outbox : /\ <<"ticket_id", tid>> \in outbox[i].meta
                           /\ <<"reason", "stale_open_ticket">> \in outbox[i].meta}

FollowedUp == {"T-000001", "T-000002", "T-000003"}

\* An event of ticket tid was written between the two messages.
EventBetween(tid, i, j) ==
    \E k \in DOMAIN tickets :
        /\ tickets[k].type = "ticket_event"
        /\ tickets[k].ticket_id = tid
        /\ outbox[i].ts <= tickets[k].ts
        /\ tickets[k].ts <= outbox[j].ts

\* C28 as stated: when passes do not overlap, a ticket gets no second
\* follow-up unless an event was appended for it after the first.
C28_NoSecondFollowupWithoutEvent ==
    \A tid \in FollowedUp :
        \A i, j \in FollowupsOf(tid) : i < j => EventBetween(tid, i, j)

\* C28, amended: a pass sends at most one follow-up per ticket; passes
\* that do not overlap each send their own, so a ticket that stays stale is
\* followed up at most once per pass.
C28_OneFollowupPerPass ==
    [][PassStep =>
       \A tid \in TicketIdsIn(ReadTicketEvents(tickets)) :
           Cardinality(NewFollowups(tid)) <= 1]_vars

\* Two passes, one after the other, each sent a follow-up about T-000001,
\* and the log holds no event of that ticket since the first.
C28_Witness ==
    /\ call.op = "followup"
    /\ \E i, j \in FollowupsOf("T-000001") :
           /\ i < j
           /\ j > call.nO
           /\ i <= call.nO
           /\ ~EventBetween("T-000001", i, j)

-----------------------------------------------------------------------------
(* Claims about the scheduler *)

\* C27: passes started by the scheduler never overlap: a pass runs to its
\* end before the scheduler can start the next, however long it takes
\* compared with the interval between passes.
C27_PassesNeverOverlap ==
    /\ sweep.runs - sweep.finished \in {0, 1}
    /\ sweep.pc = "sending" <=> sweep.runs - sweep.finished = 1

\* A second pass is running, and it has been running for a day or more.
C27_Witness ==
    /\ sweep.pc = "sending"
    /\ sweep.runs = 2
    /\ clock >= sweep.now + THRESHOLD_SECONDS
    /\ clock >= sweep.next_run

-----------------------------------------------------------------------------
(* Claims about the form of ticket ids *)

\* The id is T- followed by exactly six digits.
SixDigitForm(tid) ==
    /\ Len(tid) = 8
    /\ StartsWith(tid, "T-")
    /\ \A k \in 3..8 : IsDigit(Char(tid, k))

\* The id is T- followed by anything int() takes for a number.
NumberedForm(tid) == StartsWith(tid, "T-") /\ PyInt(SubSeq(tid, 3, Len(tid))).ok

\* The greatest of a set of numbers and 0.
Greatest(numbers) == CHOOSE m \in numbers \cup {0} : \A n \in numbers \cup {0} : n <= m

\* The numbers of the ids of the log, before the latest call, that have the form.
NumbersBefore(Form(_)) ==
    {TicketNumber(tickets[i].ticket_id) :
        i \in {k \in DOMAIN tickets : Form(tickets[k].ticket_id)}}

\* C31 as stated: the generator takes the maximum over the ids of the form T-
\* and exactly six digits and ignores every other id; the new id is T- and
\* that maximum plus one, padded to six digits.
C31_MaxOverSixDigitIds ==
    [][(Upserted(call', ret') /\ call'.args.ticket_id = None)
       => ret'.ticket_id = "T-" \o Format06d(Greatest(NumbersBefore(SixDigitForm)) + 1)]_vars

\* C31, amended: the generator takes the maximum over the ids that start
\* with T- and whose rest int() accepts, whatever its length; ids with
\* another prefix or a rest that is no number are ignored; the new id is T-
\* and that maximum plus one, padded to six digits, T-000001 on an empty log.
C31_MaxOverNumberedIds ==
    [][(Upserted(call', ret') /\ call'.args.ticket_id = None)
       => ret'.ticket_id = "T-" \o Format06d(Greatest(NumbersBefore(NumberedForm)) + 1)]_vars

\* A ticket was created as T-000013 on a log whose only numbered ids are
\* T-7 and T-0000012.
C31_Witness ==
    /\ Upserted(call, ret)
    /\ call.args.ticket_id = None
    /\ ret.ticket_id = "T-000013"
    /\ {tickets[i].ticket_id : i \in 1..call.nT} = {"T-7", "T-0000012"}

-----------------------------------------------------------------------------
(* Claims about the order of the event and its escalation mail *)

\* The places in the outbox of the mails upsert_ticket_tool wrote.
Escalations ==
    {i \in DOMAIN outbox : <<"source", "upsert_ticket_tool">> \in outbox[i].meta}

\* C32: every escalation mail comes after the event that caused it: in every
\* state, each mail written by an upsert names a ticket_id of which the log
\* holds an event with urgency high or critical and a status that is not
\* terminal, written no later than the mail.
C32_EscalationFollowsEvent ==
    \A i \in Escalations :
        \E k \in DOMAIN ReadTicketEvents(tickets) :
            LET e == ReadTicketEvents(tickets)[k]
            IN  /\ e.urgency \in {"high", "critical"}
                /\ e.status \notin Terminal
                /\ e.ts <= outbox[i].ts
                /\ outbox[i].subject = EscalationSubject(e.urgency, e.ticket_id, e.user_id)

-----------------------------------------------------------------------------
(* Claims about the tools the agent is given *)

\* C33: when the agent calls the registered close_last_ticket tool while a
\* user has an open ticket, a resolved event is appended for an open ticket
\* of the log and a structured result is returned, not an error.
C33_RegisteredCloseToolCloses ==
    [][(/\ call'.op = "close_last_ticket"
        /\ \E tid \in TicketIdsIn(tickets) : IsOpen(tickets, tid))
       => /\ "raised" \notin DOMAIN ret'
          /\ ret'.ok
          /\ Len(tickets') = Len(tickets) + 1
          /\ tickets'[Len(tickets')].status = "resolved"
          /\ IsOpen(tickets, tickets'[Len(tickets')].ticket_id)]_vars

-----------------------------------------------------------------------------
(* Claims about closing again and again *)

\* open_tickets as get_user_profile_tool reports it for the user on the log.
OpenTicketsOf(file, user_id) == GetUserProfileTool(file, user_id).open_tickets

\* C34: closing again and again for one known user ends with no_open_ticket:
\* each close that succeeds lowers the user's open_tickets, as the profile
\* reports it, by exactly one, and a close for a user who has events and no
\* open ticket left fails with no_open_ticket (stated for logs whose
\* timestamps do not collide).
C34_RepeatedCloseRunsOut ==
    [][(call'.op = "close" /\ Known(call'.user_id) /\ NoCollision(tickets'))
       => /\ ret'.ok =>
                OpenTicketsOf(tickets', call'.user_id)
                    = OpenTicketsOf(tickets, call'.user_id) - 1
          /\ (HasEventsOf(tickets, call'.user_id)
                 /\ OpenTicketsOf(tickets, call'.user_id) = 0)
             => (~ret'.ok /\ ret'.reason = "no_open_ticket")]_vars

-----------------------------------------------------------------------------
(* Claims about whose ticket a ticket is *)

\* C35: a ticket belongs to exactly one user: in every state reached through
\* upsert_ticket_tool and close_last_open_ticket_tool, called one after the
\* other, all events of the log with the same ticket_id carry the same
\* user_id.
C35_TicketHasOneUser ==
    \A i, j \in DOMAIN tickets :
        tickets[i].ticket_id = tickets[j].ticket_id
            => tickets[i].user_id = tickets[j].user_id

-----------------------------------------------------------------------------
(* Claims about the two views of which tickets are open *)

\* The tickets the follow-up pass takes for open.
SweeperOpenTickets(file) ==
    {GetOpenTicketsByUser(file)[k].rec.ticket_id : k \in DOMAIN GetOpenTicketsByUser(file)}

\* The tickets get_user_profile_tool counts in open_tickets for one user.
ProfileOpenTickets(file, user_id) ==
    LET latest_by_ticket ==
            LatestByTicket(EventsOfUser(ReadTicketEvents(file), NormalizeEmail(user_id)))
    IN  IF GetUserProfileTool(file, user_id).ok
        THEN {t \in DOMAIN latest_by_ticket : latest_by_ticket[t].status \notin Terminal}
        ELSE {}

\* The users a profile can be asked for: those of users.json and those of
\* the events of the log.
UsersOf(file) ==
    LoadDummyUsers
        \cup {ReadTicketEvents(file)[i].user_id : i \in DOMAIN ReadTicketEvents(file)}

\* C36: the two latest-state projections agree: in every state, the set of
\* tickets the follow-up pass takes for open (latest event of each ticket_id
\* over the whole log) is the union, over the users, of the tickets
\* get_user_profile_tool counts as open for the user (latest event of each
\* ticket_id over the user's events), also when timestamps collide; and the
\* profile's open_tickets is the size of the user's set.
C36_ProjectionsAgree ==
    /\ SweeperOpenTickets(tickets)
          = UNION {ProfileOpenTickets(tickets, u) : u \in UsersOf(tickets)}
    /\ \A u \in UsersOf(tickets) :
          GetUserProfileTool(tickets, u).open_tickets
              = Cardinality(ProfileOpenTickets(tickets, u))

-----------------------------------------------------------------------------
(* server.py: the registry of agents, keyed by session_id.  An agent is the *)
(* number of the build_agent() call that made it, so two agents are the     *)
(* same object exactly when they are the same number.                       *)

\* Chat requests SpecRegistry serves, one at a time.
MaxChats == 3
\* Chat requests SpecChatRace lets in, on two threads.
MaxRaceChats == 2

\* _MAX_AGENTS = 1000
MAX_AGENTS == 1000

\* d[k] = v
Put(d, k, v) == [x \in DOMAIN d \cup {k} |-> IF x = k THEN v ELSE d[x]]

\* The session_id of the n-th session a long-running server has seen.
SessionName(n) == "s" \o Decimal(n)

\* _agents after n sessions asked once each: session n holds agent n.
AgentsAfter(n) == [s \in {SessionName(i) : i \in 1..n} |-> DigitsValue(s, 2, 0)]

\* _agents of a server about to reach its cap.
StoredAgents == AgentsAfter(MAX_AGENTS - 1)

\* The session_id field of the chat requests: absent, empty, a session the
\* stored registry holds, and sessions it does not hold.
RequestSessionIds == {None, "", "s1", "guest", "visitor"}

\* session_id = req.session_id or "default"
SessionIdOf(req_session_id) ==
    IF req_session_id \in {None, ""} THEN "default" ELSE req_session_id

\* A registry that is cleared only when it has grown over the cap.
GetAgentForSessionClearsOverCap(registry, hp, session_id) ==
    IF session_id \in DOMAIN registry
    THEN [agents |-> registry, heap |-> hp, agent |-> registry[session_id]]
    ELSE LET full == Cardinality(DOMAIN registry) > MAX_AGENTS
             agent == hp.built + 1
         IN  [agents |-> Put(IF full THEN NoAgents ELSE registry, session_id, agent),
              heap |-> [hp EXCEPT !.built = agent,
                                  !.clears = IF full THEN @ + 1 ELSE @],
              agent |-> agent]

\* _get_agent_for_session(session_id), run with no other request in its way:
\* _agents and the heap after it, and the agent it returns.
GetAgentForSession(registry, hp, session_id) ==
    IF session_id \in DOMAIN registry
    THEN [agents |-> registry, heap |-> hp, agent |-> registry[session_id]]
    ELSE LET full == Cardinality(DOMAIN registry) >= MAX_AGENTS
             agent == hp.built + 1
         IN  [agents |-> Put(IF full THEN NoAgents ELSE registry, session_id, agent),
              heap |-> [hp EXCEPT !.built = agent,
                                  !.clears = IF full THEN @ + 1 ELSE @],
              agent |-> agent]

\* What agent.invoke does to the stores: the agent answers without a tool,
\* or calls manage_ticket once.  (The FAQ candidates the fallback detection
\* saves go to storage/logs.jsonl, a file no tool reads.)
NoToolCall == [tool |-> "none"]

ToolCalls == {NoToolCall} \cup Creates

AgentInvoke(file, out, now, tool) ==
    IF tool = NoToolCall
    THEN [tickets |-> file, outbox |-> out]
    ELSE UpsertTicketTool(file, out, now, tool)

\* chat(req), served from start to end before the next request.
Chat(req_session_id, tool, d, cap) ==
    LET session_id == SessionIdOf(req_session_id)
        now == clock + d
    IN  \E g \in {GetAgentForSession(agents, heap, session_id)} :
        \E r \in {AgentInvoke(tickets, outbox, now, tool)} :
            /\ heap.chats < cap
            /\ agents' = g.agents
            /\ heap' = [g.heap EXCEPT !.chats = @ + 1]
            /\ tickets' = r.tickets
            /\ outbox' = r.outbox
            /\ clock' = IF r.tickets = tickets THEN clock ELSE now
            /\ call' = [op |-> "chat", session_id |-> req_session_id,
                        nA |-> Cardinality(DOMAIN agents), clears |-> heap.clears,
                        known |-> session_id \in DOMAIN agents]
            /\ ret' = [ok |-> TRUE, session_id |-> session_id, agent |-> g.agent]
            /\ UNCHANGED <<workers, sweep>>

\* A server just started, or one about to reach its cap.
InitRegistry ==
    /\ tickets = << >>
    /\ outbox = << >>
    /\ clock = 0
    /\ call = [op |-> "none"]
    /\ ret = [ok |-> TRUE]
    /\ workers = [w \in Workers |-> Idle]
    /\ sweep = [pc |-> "idle", runs |-> 0]
    /\ agents \in {NoAgents, StoredAgents}
    /\ heap = [NoHeap EXCEPT !.built = Cardinality(DOMAIN agents)]

NextRegistry ==
    \E s \in RequestSessionIds, tool \in ToolCalls : Chat(s, tool, 1, MaxChats)

SpecRegistry == InitRegistry /\ [][NextRegistry]_vars

-----------------------------------------------------------------------------
(* Chat requests that overlap: chat is a plain def, which the server runs   *)
(* on the threads of a pool, so each request is a worker that takes the     *)
(* statements of chat and _get_agent_for_session one at a time, with its    *)
(* locals in workers[w].                                                    *)

\* The session ids of the overlapping requests.
RaceSessionIds == {None, "guest", "visitor"}

\* Requests that got their agent from _get_agent_for_session.
Served == {w \in Workers : workers[w].pc \in {"invoke", "done"}}

\* session_id = req.session_id or "default"
ChatBegin(w, req_session_id, cap) ==
    /\ workers[w].pc \in {"idle", "done", "failed"}
    /\ heap.chats < cap
    /\ heap' = [heap EXCEPT !.chats = @ + 1]
    /\ workers' = [workers EXCEPT ![w] =
           [pc |-> "lookup", session_id |-> SessionIdOf(req_session_id)]]
    /\ UNCHANGED <<tickets, outbox, clock, call, ret, sweep, agents>>

\* if session_id in _agents:
ChatLookup(w) ==
    /\ workers[w].pc = "lookup"
    /\ workers' = [workers EXCEPT ![w].pc =
           IF workers[w].session_id \in DOMAIN agents THEN "get" ELSE "cap"]
    /\ UNCHANGED <<tickets, outbox, clock, call, ret, sweep, agents, heap>>

\* return _agents[session_id]: a KeyError when the session is gone by now.
ChatGet(w) ==
    /\ workers[w].pc = "get"
    /\ workers' = [workers EXCEPT ![w] =
           IF workers[w].session_id \in DOMAIN agents
           THEN [pc |-> "invoke", session_id |-> workers[w].session_id,
                 agent |-> agents[workers[w].session_id], clears |-> heap.clears]
           ELSE [pc |-> "failed", session_id |-> workers[w].session_id,
                 raised |-> "KeyError"]]
    /\ UNCHANGED <<tickets, outbox, clock, call, ret, sweep, agents, heap>>

\* if len(_agents) >= _MAX_AGENTS:
ChatCap(w) ==
    /\ workers[w].pc = "cap"
    /\ workers' = [workers EXCEPT ![w].pc =
           IF Cardinality(DOMAIN agents) >= MAX_AGENTS THEN "clear" ELSE "build"]
    /\ UNCHANGED <<tickets, outbox, clock, call, ret, sweep, agents, heap>>

\* _agents.clear()
ChatClear(w) ==
    /\ workers[w].pc = "clear"
    /\ agents' = NoAgents
    /\ heap' = [heap EXCEPT !.clears = @ + 1]
    /\ workers' = [workers EXCEPT ![w].pc = "build"]
    /\ UNCHANGED <<tickets, outbox, clock, call, ret, sweep>>

\* agent = build_agent()
ChatBuild(w) ==
    /\ workers[w].pc = "build"
    /\ heap' = [heap EXCEPT !.built = @ + 1]
    /\ workers' = [workers EXCEPT ![w] =
           [pc |-> "store", session_id |-> workers[w].session_id,
            agent |-> heap.built + 1]]
    /\ UNCHANGED <<tickets, outbox, clock, call, ret, sweep, agents>>

\* _agents[session_id] = agent; return agent
ChatStore(w) ==
    /\ workers[w].pc = "store"
    /\ agents' = Put(agents, workers[w].session_id, workers[w].agent)
    /\ workers' = [workers EXCEPT ![w] =
           [pc |-> "invoke", session_id |-> workers[w].session_id,
            agent |-> workers[w].agent, clears |-> heap.clears]]
    /\ UNCHANGED <<tickets, outbox, clock, call, ret, sweep, heap>>

\* result = agent.invoke({"input": req.message}) and the reply.
ChatInvoke(w, tool, d) ==
    LET now == clock + d
    IN  \E r \in {AgentInvoke(tickets, outbox, now, tool)} :
        /\ workers[w].pc = "invoke"
        /\ tickets' = r.tickets
        /\ outbox' = r.outbox
        /\ clock' = IF r.tickets = tickets THEN clock ELSE now
        /\ workers' = [workers EXCEPT ![w].pc = "done"]
        /\ UNCHANGED <<call, ret, sweep, agents, heap>>

NextChatRace ==
    \/ \E w \in Workers, s \in RaceSessionIds : ChatBegin(w, s, MaxRaceChats)
    \/ \E w \in Workers : ChatLookup(w)
    \/ \E w \in Workers : ChatGet(w)
    \/ \E w \in Workers : ChatCap(w)
    \/ \E w \in Workers : ChatClear(w)
    \/ \E w \in Workers : ChatBuild(w)
    \/ \E w \in Workers : ChatStore(w)
    \/ \E w \in Workers, tool \in ToolCalls : ChatInvoke(w, tool, 1)

SpecChatRace == InitRegistry /\ [][NextChatRace]_vars

-----------------------------------------------------------------------------
(* Claims about the registry of agents *)

C37_SameSessionSameAgent ==
    \A v, w \in Served :
        (/\ workers[v].session_id = workers[w].session_id
         /\ workers[v].clears = workers[w].clears)
            => workers[v].agent = workers[w].agent

====
